---- MODULE Spec2Model ----
(***************************************************************************)
(* Call-graph and ICFG construction of icfg.py (main), as a state machine. *)
(*                                                                         *)
(* The Program Model handed over by the front end is the variable sl: it   *)
(* is chosen by Init and never changes.  Python objects are encoded as:    *)
(*   Function  - a string id, a key of sl.func                             *)
(*   Contract  - a string id, a key of sl.contract                         *)
(*   Node      - an integer id, a key of sl.node                           *)
(*   IR op     - a record [form, function]; form is the class of the       *)
(*               operation, function its target (NoneF when it has none)   *)
(* Every step of main that changes a table is one action; the whole loops  *)
(* a step contains are folded by recursive operators over the same code.   *)
(***************************************************************************)
EXTENDS Integers, Sequences, FiniteSets, TLC

VARIABLES sl, pc, all_functions, cg, caller_idx, nodes_sorted, node_idx,
          ir_idx, icfg, src_pos, visited, queue, inter_idx, out

vars == <<sl, pc, all_functions, cg, caller_idx, nodes_sorted, node_idx,
          ir_idx, icfg, src_pos, visited, queue, inter_idx, out>>

-----------------------------------------------------------------------------
(* Encoding of Python values                                               *)

\* Python None where a Function (or Contract) reference is expected.
NoneF == "None"
\* hasattr(obj, attr) is False.
Absent == "Absent"
\* Python None where a number (line, offset) is expected.
NoneN == -1
\* hasattr(sm, "start") is False.
AbsentN == -2
\* The ordering key of a Node without usable location.
SENTINEL == 999999

\* n.source_mapping is None / falsy.
NoSourceMapping ==
    [exists |-> FALSE, starting_line |-> NoneN, lines |-> <<>>, start |-> AbsentN]

-----------------------------------------------------------------------------
(* Small helpers on sequences                                              *)

Range(s) == {s[i] : i \in DOMAIN s}

\* Position of the first occurrence of x in s (0 when absent): list.index.
IndexOf(s, x) ==
    IF x \in Range(s) THEN CHOOSE i \in DOMAIN s : s[i] = x /\ \A j \in 1..(i-1) : s[j] # x
    ELSE 0

-----------------------------------------------------------------------------
(* Function collection, lines 269-274                                      *)

RECURSIVE ImplementedOf(_, _)
ImplementedOf(p, fs) ==
    IF fs = <<>> THEN <<>>
    ELSE (IF p.func[Head(fs)].is_implemented THEN <<Head(fs)>> ELSE <<>>)
         \o ImplementedOf(p, Tail(fs))

\* contract.functions of every derived contract, in encounter order.
RECURSIVE DerivedFunctions(_, _)
DerivedFunctions(p, cs) ==
    IF cs = <<>> THEN <<>>
    ELSE p.contract[Head(cs)].functions \o DerivedFunctions(p, Tail(cs))

\* The collection without the test of line 272: declarations are kept.
CollectDeclaredToo(p) == DerivedFunctions(p, p.contracts_derived)

CollectAllFunctions(p) == ImplementedOf(p, DerivedFunctions(p, p.contracts_derived))

-----------------------------------------------------------------------------
(* Function tracking table, lines 330-371                                  *)

EmptyCG(p) ==
    [call_sites |-> [f \in DOMAIN p.func |-> <<>>],
     call_graph |-> {},
     low_level_calls_by_function |-> [f \in DOMAIN p.func |-> <<>>],
     func_to_id |-> <<>>,
     func_id |-> 0,
     call_order |-> 0]

\* func_id_to_info is kept as the sequence func_to_id of the functions in id
\* order: the function with id i is at position i + 1.  The id func_to_id
\* gives for a function is the last one it was registered with (line 341
\* overwrites the entry of a Function that all_functions holds twice).
Tracked(c) == Range(c.func_to_id)
FuncId(c, f) ==
    IF f \in Range(c.func_to_id)
    THEN (CHOOSE i \in DOMAIN c.func_to_id :
             c.func_to_id[i] = f /\ \A j \in DOMAIN c.func_to_id : c.func_to_id[j] = f => j <= i) - 1
    ELSE -1

\* add_function_to_tracking without the test of lines 354-355: a tracked
\* function is registered again under a new id.
RegisterAgain(c, func) ==
    [c EXCEPT !.func_to_id = Append(@, func), !.func_id = @ + 1]

RECURSIVE RegisterAll(_, _)
RegisterAll(c, fs) ==
    IF fs = <<>> THEN c
    ELSE RegisterAll([c EXCEPT !.func_to_id = Append(@, Head(fs)),
                               !.func_id = @ + 1], Tail(fs))

add_function_to_tracking(c, func) ==
    IF func \in Tracked(c) THEN c
    ELSE [c EXCEPT !.func_to_id = Append(@, func), !.func_id = @ + 1]

-----------------------------------------------------------------------------
(* Function Resolver, lines 374-401                                        *)

HasSignature(p, f) == p.func[f].signature # Absent

\* The test without lines 390-397: a name match is enough.
CandidateMatchesByName(p, f, func) ==
    /\ p.func[f].name = p.func[func].name
    /\ p.func[f].is_implemented

\* The test without "f.is_implemented" of line 388: a declaration of the
\* same name is accepted.
CandidateMatchesDeclared(p, f, func) ==
    /\ p.func[f].name = p.func[func].name
    /\ \/ /\ HasSignature(p, f) /\ HasSignature(p, func)
          /\ p.func[f].signature = p.func[func].signature
       \/ ~(HasSignature(p, f) /\ HasSignature(p, func))

\* The inner test of the scan, lines 388-397, for candidate f against func:
\* "return" (TRUE) or fall through to the next candidate.
CandidateMatches(p, f, func) ==
    /\ p.func[f].name = p.func[func].name
    /\ p.func[f].is_implemented
    /\ \/ /\ HasSignature(p, f) /\ HasSignature(p, func)
          /\ p.func[f].signature = p.func[func].signature
       \/ ~(HasSignature(p, f) /\ HasSignature(p, func))

RECURSIVE FirstMatch(_, _, _)
FirstMatch(p, fs, func) ==
    IF fs = <<>> THEN NoneF
    ELSE IF CandidateMatches(p, Head(fs), func) THEN Head(fs)
    ELSE FirstMatch(p, Tail(fs), func)

\* The resolver that gives back its input: line 401 alone.
ReturnInput(p, func) == func

find_function_implementation(p, func) ==
    IF func = NoneF THEN NoneF
    ELSE IF p.func[func].is_implemented THEN func
    ELSE IF p.func[func].contract \notin {Absent, NoneF}
         THEN LET m == FirstMatch(p, DerivedFunctions(p, p.contracts_derived), func)
              IN  IF m # NoneF THEN m ELSE func
    ELSE func

\* The test of line 530 without its hasattr part.
HasAnyName(p, f) == TRUE

\* hasattr(impl_func, "name")
HasName(p, f) == p.func[f].name # Absent

-----------------------------------------------------------------------------
(* Call Classifier, lines 485-524                                          *)

\* isinstance(ir, cls) for the operation classes imported at lines 310-318.
\* In the front end LibraryCall is declared as a subclass of HighLevelCall;
\* the other classes are unrelated.
IsInstance(ir, cls) ==
    \/ ir.form = cls
    \/ cls = "HighLevelCall" /\ ir.form = "LibraryCall"

IsLibraryFunction(p, f) ==
    /\ p.func[f].contract \notin {Absent, NoneF}
    /\ p.contract[p.func[f].contract].is_library

\* ClassifyIR when the import of line 314 fails and LowLevelCall is None: the
\* low-level branch is never taken.
ClassifyIRNoLowLevel(p, ir) ==
    IF IsInstance(ir, "InternalCall") THEN
        IF ir.function # NoneF /\ p.func[ir.function].contract # Absent
        THEN [call_type |-> IF IsLibraryFunction(p, ir.function) THEN "library" ELSE "internal",
              callee_func |-> ir.function]
        ELSE [call_type |-> NoneF, callee_func |-> ir.function]
    ELSE IF IsInstance(ir, "HighLevelCall") THEN
        IF ir.function # NoneF
        THEN [call_type |-> "high_level", callee_func |-> ir.function]
        ELSE [call_type |-> NoneF, callee_func |-> NoneF]
    ELSE IF IsInstance(ir, "LibraryCall") THEN
        [call_type |-> "library", callee_func |-> ir.function]
    ELSE [call_type |-> NoneF, callee_func |-> NoneF]

\* The if/elif chain: the (call_type, callee_func) it leaves, with call_type
\* "low_level" standing for the branch that records a low-level call.
ClassifyIR(p, ir) ==
    IF IsInstance(ir, "InternalCall") THEN
        IF ir.function # NoneF /\ p.func[ir.function].contract # Absent
        THEN [call_type |-> IF IsLibraryFunction(p, ir.function) THEN "library" ELSE "internal",
              callee_func |-> ir.function]
        ELSE [call_type |-> NoneF, callee_func |-> ir.function]
    ELSE IF IsInstance(ir, "HighLevelCall") THEN
        IF ir.function # NoneF
        THEN [call_type |-> "high_level", callee_func |-> ir.function]
        ELSE [call_type |-> NoneF, callee_func |-> NoneF]
    ELSE IF IsInstance(ir, "LibraryCall") THEN
        [call_type |-> "library", callee_func |-> ir.function]
    ELSE IF IsInstance(ir, "LowLevelCall") THEN
        [call_type |-> "low_level", callee_func |-> NoneF]
    ELSE [call_type |-> NoneF, callee_func |-> NoneF]

-----------------------------------------------------------------------------
(* Call-Site Order Tracker, lines 454-481                                  *)

get_node_line(p, n) ==
    LET sm == p.node[n].source_mapping IN
    IF sm.exists THEN
        IF sm.starting_line # NoneN THEN sm.starting_line
        ELSE IF sm.lines # <<>> THEN sm.lines[1]
        ELSE IF sm.start # AbsentN THEN sm.start
        ELSE SENTINEL
    ELSE SENTINEL

\* sorted(seq, key=...): Python's sort is stable; an element is placed
\* after every element whose key is not larger.
RECURSIVE InsertSorted(_, _, _)
InsertSorted(x, s, key) ==
    IF s = <<>> THEN <<x>>
    ELSE IF key[Head(s)] <= key[x] THEN <<Head(s)>> \o InsertSorted(x, Tail(s), key)
    ELSE <<x>> \o s

RECURSIVE sorted(_, _)
sorted(s, key) ==
    IF s = <<>> THEN <<>>
    ELSE InsertSorted(s[Len(s)], sorted(SubSeq(s, 1, Len(s) - 1), key), key)

NodeKeys(p, f) == [n \in Range(p.func[f].nodes) |-> get_node_line(p, n)]

\* Comparing None with a number (or with None) raises TypeError; sorting a
\* list of two or more elements compares every element at least once.
SortRaises(p, f) ==
    /\ Len(p.func[f].nodes) >= 2
    /\ \E n \in Range(p.func[f].nodes) : get_node_line(p, n) = NoneN

\* The Nodes left in the order of the Function's node list.
UnsortedNodesOf(p, f) == p.func[f].nodes

\* The Nodes in an order taken from outside the Program Model (such as the
\* addresses of the Node objects): it is one order while the call graph is
\* being built and another one afterwards.
RECURSIVE Reversed(_)
Reversed(s) == IF s = <<>> THEN <<>> ELSE Append(Reversed(Tail(s)), Head(s))

NodesByAddress(p, f) ==
    IF pc \in {"sort", "ir"} THEN Reversed(p.func[f].nodes) ELSE p.func[f].nodes

SortNodesOf(p, f) == sorted(p.func[f].nodes, NodeKeys(p, f))

-----------------------------------------------------------------------------
(* Call Graph Builder, lines 483-622                                       *)

\* RecordCallSite without line 549: the Call Site is appended and the coarse
\* edge set is left as it is.
RecordSiteOnly(c, caller, impl, kind, node, ir) ==
    LET t == add_function_to_tracking(c, impl) IN
    [t EXCEPT !.call_order = @ + 1,
              !.call_sites[caller] = Append(@, [order |-> c.call_order + 1,
                                                call_type |-> kind,
                                                callee_func |-> impl,
                                                node |-> node,
                                                ir |-> ir])]

\* Lines 531-549 (and 566-582, 606-622): register the callee, take the next
\* order number, append the Call Site, add the kind to the coarse edge.
\* node and ir stand for the source_mapping / call_site text of the record:
\* the originating Node and the position of the operation in it (0 for a
\* record that comes from a node-level summary).
RecordCallSite(c, caller, impl, kind, node, ir) ==
    LET t == add_function_to_tracking(c, impl) IN
    [t EXCEPT !.call_order = @ + 1,
              !.call_sites[caller] = Append(@, [order |-> c.call_order + 1,
                                                call_type |-> kind,
                                                callee_func |-> impl,
                                                node |-> node,
                                                ir |-> ir]),
              !.call_graph = @ \cup {<<caller, impl, kind>>}]

\* A low-level record numbered by a counter of its own: its place in the
\* low-level-call list.
RecordLowLevelOwnCounter(c, caller, node, ir) ==
    [c EXCEPT !.low_level_calls_by_function[caller] =
                  Append(@, [order |-> Len(@) + 1, node |-> node, ir |-> ir])]

\* Lines 515-523.
RecordLowLevel(c, caller, node, ir) ==
    [c EXCEPT !.call_order = @ + 1,
              !.low_level_calls_by_function[caller] =
                  Append(@, [order |-> c.call_order + 1, node |-> node, ir |-> ir])]

\* ProcessIROp with the duplicate test of the summaries applied to
\* operations too: an operation is dropped when the caller already has a
\* Call Site with its callee and kind.
ProcessIROpOnce(c, p, caller, node, i) ==
    LET ir == p.node[node].irs[i]
        k  == ClassifyIR(p, ir)
    IN  IF k.call_type = "low_level" THEN RecordLowLevel(c, caller, node, i)
        ELSE IF k.call_type # NoneF /\ k.callee_func # NoneF THEN
            LET impl == find_function_implementation(p, k.callee_func) IN
            IF /\ impl # NoneF /\ HasName(p, impl)
               /\ ~\E j \in DOMAIN c.call_sites[caller] :
                      /\ c.call_sites[caller][j].callee_func = impl
                      /\ c.call_sites[caller][j].call_type = k.call_type
            THEN RecordCallSite(c, caller, impl, k.call_type, node, i)
            ELSE c
        ELSE c

\* One iteration of "for ir in node.all_slithir_operations()", lines 485-549.
ProcessIROp(c, p, caller, node, i) ==
    LET ir == p.node[node].irs[i]
        k  == ClassifyIR(p, ir)
    IN  IF k.call_type = "low_level" THEN RecordLowLevel(c, caller, node, i)
        ELSE IF k.call_type # NoneF /\ k.callee_func # NoneF THEN
            LET impl == find_function_implementation(p, k.callee_func) IN
            IF impl # NoneF /\ HasName(p, impl)
            THEN RecordCallSite(c, caller, impl, k.call_type, node, i)
            ELSE c
        ELSE c

\* "if not already_tracked" without the test: every summary entry is new.
NeverTracked(c, caller, impl, kind) == FALSE

\* already_tracked, lines 559-562 and 599-602.
AlreadyTracked(c, caller, impl, kind) ==
    \E j \in DOMAIN c.call_sites[caller] :
        /\ c.call_sites[caller][j].callee_func = impl
        /\ c.call_sites[caller][j].call_type = kind

\* One entry of node.high_level_calls, lines 555-582.
HighLevelSummary(c, p, caller, node, call_func) ==
    IF call_func = NoneF THEN c
    ELSE LET impl == find_function_implementation(p, call_func) IN
         IF impl # NoneF /\ HasName(p, impl) /\ ~AlreadyTracked(c, caller, impl, "high_level")
         THEN RecordCallSite(c, caller, impl, "high_level", node, 0)
         ELSE c

\* The kind an internal_calls entry gets, lines 590-596 (and 977-980).
SummaryCallType(p, impl) ==
    IF IsLibraryFunction(p, impl) THEN "library" ELSE "internal"

\* One entry of node.internal_calls, lines 586-622.
InternalSummary(c, p, caller, node, call_func) ==
    IF call_func = NoneF THEN c
    ELSE LET impl == find_function_implementation(p, call_func) IN
         IF /\ impl # NoneF /\ HasName(p, impl)
            /\ ~AlreadyTracked(c, caller, impl, SummaryCallType(p, impl))
         THEN RecordCallSite(c, caller, impl, SummaryCallType(p, impl), node, 0)
         ELSE c

RECURSIVE FoldHighLevel(_, _, _, _, _)
FoldHighLevel(c, p, caller, node, calls) ==
    IF calls = <<>> THEN c
    ELSE FoldHighLevel(HighLevelSummary(c, p, caller, node, Head(calls)),
                       p, caller, node, Tail(calls))

RECURSIVE FoldInternal(_, _, _, _, _)
FoldInternal(c, p, caller, node, calls) ==
    IF calls = <<>> THEN c
    ELSE FoldInternal(InternalSummary(c, p, caller, node, Head(calls)),
                      p, caller, node, Tail(calls))

\* The call graph built from the operations alone: lines 551-622 left out.
IgnoreSummaries(c, p, caller, node) == c

\* The node-level fallback of one Node, lines 551-622.
ProcessSummaries(c, p, caller, node) ==
    FoldInternal(FoldHighLevel(c, p, caller, node, p.node[node].high_level_calls),
                 p, caller, node, p.node[node].internal_calls)

RECURSIVE FoldIR(_, _, _, _, _)
FoldIR(c, p, caller, node, i) ==
    IF i > Len(p.node[node].irs) THEN c
    ELSE FoldIR(ProcessIROp(c, p, caller, node, i), p, caller, node, i + 1)

\* The body of "for node in nodes_sorted", lines 483-622.
ProcessNode(c, p, caller, node) ==
    ProcessSummaries(FoldIR(c, p, caller, node, 1), p, caller, node)

RECURSIVE FoldNodes(_, _, _, _)
FoldNodes(c, p, caller, ns) ==
    IF ns = <<>> THEN c
    ELSE FoldNodes(ProcessNode(c, p, caller, Head(ns)), p, caller, Tail(ns))

\* The whole traversal, lines 454-622, from the tables as registered; the
\* result carries raised = TRUE when sorting some Function's Nodes raises.
RECURSIVE FoldFunctions(_, _, _)
FoldFunctions(c, p, fs) ==
    IF fs = <<>> THEN [cg |-> c, raised |-> FALSE]
    ELSE IF SortRaises(p, Head(fs)) THEN [cg |-> c, raised |-> TRUE]
    ELSE FoldFunctions(FoldNodes([c EXCEPT !.call_order = 0], p, Head(fs),
                                 SortNodesOf(p, Head(fs))),
                       p, Tail(fs))

BuildCallGraph(p) ==
    FoldFunctions(RegisterAll(EmptyCG(p), CollectAllFunctions(p)), p, CollectAllFunctions(p))

-----------------------------------------------------------------------------
(* ICFG Reducer: node selection and creation, lines 805-864                *)

\* func.entry_point is None.
NoneNode == 0

CallForms == {"InternalCall", "HighLevelCall", "LibraryCall", "LowLevelCall"}

\* is_call_site that takes every Node for a call site.
is_call_site_any(p, n) == n \in DOMAIN p.node

\* is_call_site when the import of LowLevelCall fails (ICFG_LowLevelCall is
\* None) and the low_level_calls summary is not looked at.
is_call_site_no_low_level(p, n) ==
    \/ \E i \in DOMAIN p.node[n].irs :
          \E cls \in CallForms \ {"LowLevelCall"} : IsInstance(p.node[n].irs[i], cls)
    \/ p.node[n].high_level_calls # <<>>
    \/ p.node[n].internal_calls # <<>>

is_call_site(p, n) ==
    \/ \E i \in DOMAIN p.node[n].irs :
          \E cls \in CallForms : IsInstance(p.node[n].irs[i], cls)
    \/ p.node[n].high_level_calls # <<>>
    \/ p.node[n].internal_calls # <<>>
    \/ p.node[n].low_level_calls # <<>>

EmptyICFG ==
    [call_site_nodes |-> {}, function_entry_points |-> <<>>,
     node_to_id |-> <<>>, node_to_function |-> <<>>, node_id |-> 0,
     icfg_nodes |-> <<>>, icfg_edges |-> <<>>]

\* The selection without line 840: entry points are not added.
RECURSIVE SelectWithoutEntry(_, _, _)
SelectWithoutEntry(ic, p, fs) ==
    IF fs = <<>> THEN ic
    ELSE SelectWithoutEntry(
            [ic EXCEPT !.call_site_nodes =
                @ \cup {n \in Range(p.func[Head(fs)].nodes) : is_call_site(p, n)}],
            p, Tail(fs))

\* Lines 834-844.  function_entry_points is kept as the sequence of the
\* Functions that have an entry point; the Node is p.func[f].entry_point.
RECURSIVE SelectCallSiteNodes(_, _, _)
SelectCallSiteNodes(ic, p, fs) ==
    IF fs = <<>> THEN ic
    ELSE LET f == Head(fs)
             entry == p.func[f].entry_point
             sites == {n \in Range(p.func[f].nodes) : is_call_site(p, n)}
             withEntry == IF entry # NoneNode
                          THEN [ic EXCEPT !.function_entry_points = Append(@, f),
                                          !.call_site_nodes = @ \cup {entry}]
                          ELSE ic
         IN  SelectCallSiteNodes([withEntry EXCEPT !.call_site_nodes = @ \cup sites],
                                 p, Tail(fs))

\* node_to_id is kept as the sequence of Nodes in id order: the id of a Node
\* is its position minus one.
HasNodeId(ic, n) == n \in Range(ic.node_to_id)
NodeId(ic, n) == IndexOf(ic.node_to_id, n) - 1

\* Lines 848-864 without the test of lines 851-852: a Node that already has
\* an id is numbered again.
RECURSIVE CreateNodesAgain(_, _, _, _)
CreateNodesAgain(ic, p, f, ns) ==
    IF ns = <<>> THEN ic
    ELSE LET n == Head(ns) IN
         IF n \notin ic.call_site_nodes
         THEN CreateNodesAgain(ic, p, f, Tail(ns))
         ELSE CreateNodesAgain(
                [ic EXCEPT !.node_to_id = Append(@, n),
                           !.node_to_function = Append(@, f),
                           !.icfg_nodes = Append(@,
                               [id |-> ic.node_id,
                                function |-> f,
                                is_entry_point |->
                                    IF p.func[f].entry_point # NoneNode
                                    THEN p.func[f].entry_point = n ELSE FALSE]),
                           !.node_id = @ + 1],
                p, f, Tail(ns))

\* Lines 848-864 for one Function.
RECURSIVE CreateNodesOf(_, _, _, _)
CreateNodesOf(ic, p, f, ns) ==
    IF ns = <<>> THEN ic
    ELSE LET n == Head(ns) IN
         IF n \notin ic.call_site_nodes \/ HasNodeId(ic, n)
         THEN CreateNodesOf(ic, p, f, Tail(ns))
         ELSE CreateNodesOf(
                [ic EXCEPT !.node_to_id = Append(@, n),
                           !.node_to_function = Append(@, f),
                           !.icfg_nodes = Append(@,
                               [id |-> ic.node_id,
                                function |-> f,
                                is_entry_point |->
                                    IF p.func[f].entry_point # NoneNode
                                    THEN p.func[f].entry_point = n ELSE FALSE]),
                           !.node_id = @ + 1],
                p, f, Tail(ns))

\* Lines 846-864.
RECURSIVE CreateICFGNodes(_, _, _)
CreateICFGNodes(ic, p, fs) ==
    IF fs = <<>> THEN ic
    ELSE CreateICFGNodes(CreateNodesOf(ic, p, Head(fs), p.func[Head(fs)].nodes),
                         p, Tail(fs))

-----------------------------------------------------------------------------
(* ICFG Reducer: intra-procedural edges, lines 866-906                     *)

\* Line 870.
FuncCallSites(ic, p, f) ==
    SelectSeq(p.func[f].nodes, LAMBDA n : n \in ic.call_site_nodes /\ HasNodeId(ic, n))

IntraEdge(s, d) == [src |-> s, dst |-> d, type |-> "intra_procedural", call_type |-> NoneF]

\* Lines 893-894.
HasEdge(edges, s, d, type) ==
    \E i \in DOMAIN edges :
        edges[i].src = s /\ edges[i].dst = d /\ edges[i].type = type

\* Line 904-906 with a break after the first son that is enqueued: the other
\* branches of the successor graph are never searched.
RECURSIVE FirstUnvisitedSon(_, _, _)
FirstUnvisitedSon(sons, vis, original_src) ==
    IF sons = <<>> THEN <<>>
    ELSE IF Head(sons) \notin vis THEN << <<Head(sons), original_src>> >>
    ELSE FirstUnvisitedSon(Tail(sons), vis, original_src)

RECURSIVE UnvisitedSons(_, _, _)
UnvisitedSons(sons, vis, original_src) ==
    IF sons = <<>> THEN <<>>
    ELSE (IF Head(sons) \notin vis THEN << <<Head(sons), original_src>> >> ELSE <<>>)
         \o UnvisitedSons(Tail(sons), vis, original_src)

\* BFSStep with the "continue" of line 901 lost: the search goes on past a
\* call site it has found.
BFSStepThrough(b, ic, p, src_id) ==
    LET current == Head(b.queue)[1]
        original_src == Head(b.queue)[2]
        rest == Tail(b.queue)
        vis == b.visited \cup {current}
        found == /\ current \in ic.call_site_nodes /\ current # original_src
                 /\ HasNodeId(ic, current)
                 /\ ~HasEdge(b.edges, src_id, NodeId(ic, current), "intra_procedural")
    IN  IF current \in b.visited THEN [b EXCEPT !.queue = rest]
        ELSE [visited |-> vis,
              queue |-> rest \o UnvisitedSons(p.node[current].sons, vis, original_src),
              edges |-> IF found
                        THEN Append(b.edges, IntraEdge(src_id, NodeId(ic, current)))
                        ELSE b.edges]

\* BFSStep without line 886: the Node taken from the queue is never marked
\* as visited.
BFSStepNoMark(b, ic, p, src_id) ==
    LET current == Head(b.queue)[1]
        original_src == Head(b.queue)[2]
        rest == Tail(b.queue)
    IN  IF current \in b.visited THEN [b EXCEPT !.queue = rest]
        ELSE IF current \in ic.call_site_nodes /\ current # original_src THEN
            IF HasNodeId(ic, current)
               /\ ~HasEdge(b.edges, src_id, NodeId(ic, current), "intra_procedural")
            THEN [visited |-> b.visited, queue |-> rest,
                  edges |-> Append(b.edges, IntraEdge(src_id, NodeId(ic, current)))]
            ELSE [visited |-> b.visited, queue |-> rest, edges |-> b.edges]
        ELSE [visited |-> b.visited,
              queue |-> rest \o UnvisitedSons(p.node[current].sons, b.visited, original_src),
              edges |-> b.edges]

\* One iteration of "while queue", lines 882-906: b = [visited, queue, edges].
BFSStep(b, ic, p, src_id) ==
    LET current == Head(b.queue)[1]
        original_src == Head(b.queue)[2]
        rest == Tail(b.queue)
        vis == b.visited \cup {current}
    IN  IF current \in b.visited THEN [b EXCEPT !.queue = rest]
        ELSE IF current \in ic.call_site_nodes /\ current # original_src THEN
            IF HasNodeId(ic, current)
               /\ ~HasEdge(b.edges, src_id, NodeId(ic, current), "intra_procedural")
            THEN [visited |-> vis, queue |-> rest,
                  edges |-> Append(b.edges, IntraEdge(src_id, NodeId(ic, current)))]
            ELSE [visited |-> vis, queue |-> rest, edges |-> b.edges]
        ELSE [visited |-> vis,
              queue |-> rest \o UnvisitedSons(p.node[current].sons, vis, original_src),
              edges |-> b.edges]

-----------------------------------------------------------------------------
(* ICFG Reducer: inter-procedural edges, lines 908-986                     *)

\* Lines 916-929: the callee the if/elif chain leaves.
InterCallee(ir) ==
    IF IsInstance(ir, "InternalCall") THEN ir.function
    ELSE IF IsInstance(ir, "HighLevelCall") THEN ir.function
    ELSE IF IsInstance(ir, "LibraryCall") THEN ir.function
    ELSE NoneF

\* Lines 942-944.
InterCallType(ir) ==
    IF IsInstance(ir, "InternalCall") THEN "internal"
    ELSE IF IsInstance(ir, "HighLevelCall") THEN "high_level"
    ELSE IF IsInstance(ir, "LibraryCall") THEN "library"
    ELSE "unknown"

InterEdge(s, d, kind) ==
    [src |-> s, dst |-> d, type |-> "inter_procedural", call_type |-> kind]

\* CalleeEntry without the test "entry in node_to_id" of lines 936, 954, 972.
CalleeEntryAnywhere(ic, p, call_func) ==
    IF call_func = NoneF THEN NoneNode
    ELSE LET impl == find_function_implementation(p, call_func) IN
         IF impl = NoneF THEN NoneNode
         ELSE p.func[impl].entry_point

\* The entry-point Node an edge to call_func would end at (NoneNode: no edge).
CalleeEntry(ic, p, call_func) ==
    IF call_func = NoneF THEN NoneNode
    ELSE LET impl == find_function_implementation(p, call_func) IN
         IF impl = NoneF THEN NoneNode
         ELSE IF p.func[impl].entry_point # NoneNode /\ HasNodeId(ic, p.func[impl].entry_point)
              THEN p.func[impl].entry_point
              ELSE NoneNode

\* Lines 915-945 for one operation.
InterFromIR(edges, ic, p, n, ir) ==
    LET entry == CalleeEntry(ic, p, InterCallee(ir)) IN
    IF entry # NoneNode
    THEN Append(edges, InterEdge(NodeId(ic, n), NodeId(ic, entry), InterCallType(ir)))
    ELSE edges

\* Lines 948-964 without the test of lines 957-958: the summary adds its
\* edge whether or not the pair already has one.
InterFromHighLevelAlways(edges, ic, p, n, call_func) ==
    LET entry == CalleeEntry(ic, p, call_func) IN
    IF entry # NoneNode
    THEN Append(edges, InterEdge(NodeId(ic, n), NodeId(ic, entry), "high_level"))
    ELSE edges

\* Lines 948-964 for one entry of n.high_level_calls.
InterFromHighLevel(edges, ic, p, n, call_func) ==
    LET entry == CalleeEntry(ic, p, call_func) IN
    IF entry # NoneNode /\ ~HasEdge(edges, NodeId(ic, n), NodeId(ic, entry), "inter_procedural")
    THEN Append(edges, InterEdge(NodeId(ic, n), NodeId(ic, entry), "high_level"))
    ELSE edges

\* Lines 966-986 for one entry of n.internal_calls.
InterFromInternal(edges, ic, p, n, call_func) ==
    LET entry == CalleeEntry(ic, p, call_func) IN
    IF entry # NoneNode /\ ~HasEdge(edges, NodeId(ic, n), NodeId(ic, entry), "inter_procedural")
    THEN Append(edges, InterEdge(NodeId(ic, n), NodeId(ic, entry),
                    SummaryCallType(p, find_function_implementation(p, call_func))))
    ELSE edges

RECURSIVE FoldInterIR(_, _, _, _, _)
FoldInterIR(edges, ic, p, n, irs) ==
    IF irs = <<>> THEN edges
    ELSE FoldInterIR(InterFromIR(edges, ic, p, n, Head(irs)), ic, p, n, Tail(irs))

RECURSIVE FoldInterHighLevel(_, _, _, _, _)
FoldInterHighLevel(edges, ic, p, n, calls) ==
    IF calls = <<>> THEN edges
    ELSE FoldInterHighLevel(InterFromHighLevel(edges, ic, p, n, Head(calls)),
                            ic, p, n, Tail(calls))

RECURSIVE FoldInterInternal(_, _, _, _, _)
FoldInterInternal(edges, ic, p, n, calls) ==
    IF calls = <<>> THEN edges
    ELSE FoldInterInternal(InterFromInternal(edges, ic, p, n, Head(calls)),
                           ic, p, n, Tail(calls))

\* The body of "for n in f.nodes", lines 910-986.
InterEdgesOfNode(edges, ic, p, n) ==
    IF ~HasNodeId(ic, n) THEN edges
    ELSE FoldInterInternal(
            FoldInterHighLevel(
                FoldInterIR(edges, ic, p, n, p.node[n].irs),
                ic, p, n, p.node[n].high_level_calls),
            ic, p, n, p.node[n].internal_calls)

RECURSIVE InterEdgesOfNodes(_, _, _, _)
InterEdgesOfNodes(edges, ic, p, ns) ==
    IF ns = <<>> THEN edges
    ELSE InterEdgesOfNodes(InterEdgesOfNode(edges, ic, p, Head(ns)), ic, p, Tail(ns))

-----------------------------------------------------------------------------
(* Export, lines 989-1071                                                  *)

\* Lines 1018-1034 for the sorted Call Sites of one caller.
RECURSIVE EdgesOfSites(_, _, _)
EdgesOfSites(c, caller, sites) ==
    IF sites = <<>> THEN <<>>
    ELSE (IF Head(sites).callee_func \in Tracked(c)
          THEN << [src |-> FuncId(c, caller),
                   dst |-> FuncId(c, Head(sites).callee_func),
                   order |-> Head(sites).order,
                   call_type |-> Head(sites).call_type] >>
          ELSE <<>>)
         \o EdgesOfSites(c, caller, Tail(sites))

\* The keys of a dictionary filled while going through fs: every element
\* once, at the place where it is first met.
RECURSIVE FirstSeen(_)
FirstSeen(fs) ==
    IF fs = <<>> THEN <<>>
    ELSE LET front == FirstSeen(SubSeq(fs, 1, Len(fs) - 1))
         IN  IF fs[Len(fs)] \in Range(front) THEN front ELSE Append(front, fs[Len(fs)])

\* Lines 639, 644 and 1016: the records of one caller sorted by "order".
ByOrder(sites) == sorted(sites, [x \in Range(sites) |-> x.order])

\* Lines 1008-1034: call_sites gets its keys caller by caller in the order of
\* all_functions, which is the order its items() are visited in.
RECURSIVE ExportEdges(_, _)
ExportEdges(c, fs) ==
    IF fs = <<>> THEN <<>>
    ELSE (IF Head(fs) \in Tracked(c)
          THEN EdgesOfSites(c, Head(fs), ByOrder(c.call_sites[Head(fs)]))
          ELSE <<>>)
         \o ExportEdges(c, Tail(fs))

RECURSIVE LowLevelOf(_, _, _)
LowLevelOf(c, caller, lls) ==
    IF lls = <<>> THEN <<>>
    ELSE << [caller_id |-> FuncId(c, caller), order |-> Head(lls).order] >>
         \o LowLevelOf(c, caller, Tail(lls))

\* Lines 1036-1049.
RECURSIVE ExportLowLevel(_, _)
ExportLowLevel(c, fs) ==
    IF fs = <<>> THEN <<>>
    ELSE (IF Head(fs) \in Tracked(c)
          THEN LowLevelOf(c, Head(fs), ByOrder(c.low_level_calls_by_function[Head(fs)]))
          ELSE <<>>)
         \o ExportLowLevel(c, Tail(fs))

\* Lines 995-1006 and 1059-1071.
ExportDocument(c, ic, fs) ==
    [function_nodes |-> [i \in 1..Len(c.func_to_id) |-> [id |-> i - 1, func |-> c.func_to_id[i]]],
     function_edges |-> ExportEdges(c, FirstSeen(fs)),
     low_level_calls |-> ExportLowLevel(c, FirstSeen(fs)),
     icfg_nodes |-> ic.icfg_nodes,
     icfg_edges |-> ic.icfg_edges]

NoDocument ==
    [function_nodes |-> <<>>, function_edges |-> <<>>, low_level_calls |-> <<>>,
     icfg_nodes |-> <<>>, icfg_edges |-> <<>>]

-----------------------------------------------------------------------------
(* The run of main as a state machine                                      *)

\* The caller Function and the Node the traversal of lines 454-622 is at.
CurCaller == all_functions[caller_idx]
CurNode == nodes_sorted[node_idx]

\* The position, in (Function index, index into func_call_sites), of the first
\* source Node of a Function at or after index fi; <<0, 0>> when there is none.
RECURSIVE FirstSrcFrom(_, _, _, _)
FirstSrcFrom(ic, p, fs, fi) ==
    IF fi > Len(fs) THEN <<0, 0>>
    ELSE IF FuncCallSites(ic, p, fs[fi]) # <<>> THEN <<fi, 1>>
    ELSE FirstSrcFrom(ic, p, fs, fi + 1)

NextSrcPos(ic, p, fs, pos) ==
    IF pos[2] < Len(FuncCallSites(ic, p, fs[pos[1]])) THEN <<pos[1], pos[2] + 1>>
    ELSE FirstSrcFrom(ic, p, fs, pos[1] + 1)

\* The source Node of the breadth-first search in progress (line 873).
SrcNode == FuncCallSites(icfg, sl, all_functions[src_pos[1]])[src_pos[2]]

\* The state main starts in, for the Program Model p.
InitOn(p) ==
    /\ sl = p
    /\ pc = "collect"
    /\ all_functions = <<>>
    /\ cg = EmptyCG(p)
    /\ caller_idx = 0
    /\ nodes_sorted = <<>>
    /\ node_idx = 0
    /\ ir_idx = 0
    /\ icfg = EmptyICFG
    /\ src_pos = <<0, 0>>
    /\ visited = {}
    /\ queue = <<>>
    /\ inter_idx = 0
    /\ out = NoDocument

\* Lines 269-274.
CollectFunctions ==
    /\ pc = "collect"
    /\ all_functions' = CollectAllFunctions(sl)
    /\ pc' = "register"
    /\ UNCHANGED <<sl, cg, caller_idx, nodes_sorted, node_idx, ir_idx, icfg,
                   src_pos, visited, queue, inter_idx, out>>

\* Lines 330-350.
RegisterFunctions ==
    /\ pc = "register"
    /\ cg' = RegisterAll(cg, all_functions)
    /\ caller_idx' = 1
    /\ pc' = IF all_functions = <<>> THEN "select" ELSE "sort"
    /\ UNCHANGED <<sl, all_functions, nodes_sorted, node_idx, ir_idx, icfg,
                   src_pos, visited, queue, inter_idx, out>>

\* Lines 454-481: the head of the loop over caller functions.
SortNodes ==
    /\ pc = "sort"
    /\ IF SortRaises(sl, CurCaller)
       THEN /\ pc' = "raised"
            /\ UNCHANGED <<cg, caller_idx, nodes_sorted, node_idx, ir_idx>>
       ELSE /\ cg' = [cg EXCEPT !.call_order = 0]
            /\ nodes_sorted' = SortNodesOf(sl, CurCaller)
            /\ IF sl.func[CurCaller].nodes # <<>>
               THEN /\ node_idx' = 1 /\ ir_idx' = 1 /\ pc' = "ir"
                    /\ UNCHANGED caller_idx
               ELSE /\ node_idx' = 0 /\ ir_idx' = 0
                    /\ caller_idx' = caller_idx + 1
                    /\ pc' = IF caller_idx < Len(all_functions) THEN "sort" ELSE "select"
    /\ UNCHANGED <<sl, all_functions, icfg, src_pos, visited, queue, inter_idx, out>>

\* Lines 485-549: one intermediate-representation operation of the Node.
ProcessIR ==
    /\ pc = "ir"
    /\ ir_idx <= Len(sl.node[CurNode].irs)
    /\ cg' = ProcessIROp(cg, sl, CurCaller, CurNode, ir_idx)
    /\ ir_idx' = ir_idx + 1
    /\ UNCHANGED <<sl, pc, all_functions, caller_idx, nodes_sorted, node_idx, icfg,
                   src_pos, visited, queue, inter_idx, out>>

\* Lines 551-622: the node-level summaries of the Node, then the next Node
\* or the next caller Function.
ProcessNodeSummaries ==
    /\ pc = "ir"
    /\ ir_idx > Len(sl.node[CurNode].irs)
    /\ cg' = ProcessSummaries(cg, sl, CurCaller, CurNode)
    /\ IF node_idx < Len(nodes_sorted)
       THEN /\ node_idx' = node_idx + 1 /\ ir_idx' = 1
            /\ UNCHANGED <<pc, caller_idx>>
       ELSE /\ node_idx' = 0 /\ ir_idx' = 0
            /\ caller_idx' = caller_idx + 1
            /\ pc' = IF caller_idx < Len(all_functions) THEN "sort" ELSE "select"
    /\ UNCHANGED <<sl, all_functions, nodes_sorted, icfg, src_pos, visited, queue,
                   inter_idx, out>>

\* Lines 834-844.
SelectNodes ==
    /\ pc = "select"
    /\ icfg' = SelectCallSiteNodes(icfg, sl, all_functions)
    /\ pc' = "create"
    /\ UNCHANGED <<sl, all_functions, cg, caller_idx, nodes_sorted, node_idx, ir_idx,
                   src_pos, visited, queue, inter_idx, out>>

\* Lines 846-864.
CreateNodes ==
    /\ pc = "create"
    /\ icfg' = CreateICFGNodes(icfg, sl, all_functions)
    /\ src_pos' = FirstSrcFrom(icfg', sl, all_functions, 1)
    /\ inter_idx' = 1
    /\ pc' = IF src_pos' # <<0, 0>> THEN "intra"
             ELSE IF all_functions # <<>> THEN "inter" ELSE "export"
    /\ UNCHANGED <<sl, all_functions, cg, caller_idx, nodes_sorted, node_idx, ir_idx,
                   visited, queue, out>>

\* Lines 873-880: the search from the next source Node starts.
StartBFS ==
    /\ pc = "intra"
    /\ visited' = {}
    /\ queue' = << <<SrcNode, SrcNode>> >>
    /\ pc' = "bfs"
    /\ UNCHANGED <<sl, all_functions, cg, caller_idx, nodes_sorted, node_idx, ir_idx,
                   icfg, src_pos, inter_idx, out>>

\* Lines 882-906: one iteration of the while loop; when the queue runs empty
\* the loops of lines 868 and 873 move to the next source Node.
BFSPop ==
    /\ pc = "bfs"
    /\ queue # <<>>
    /\ LET b == BFSStep([visited |-> visited, queue |-> queue, edges |-> icfg.icfg_edges],
                        icfg, sl, NodeId(icfg, SrcNode))
       IN  /\ visited' = b.visited
           /\ queue' = b.queue
           /\ icfg' = [icfg EXCEPT !.icfg_edges = b.edges]
           /\ IF b.queue = <<>>
              THEN /\ src_pos' = NextSrcPos(icfg, sl, all_functions, src_pos)
                   /\ pc' = IF src_pos' # <<0, 0>> THEN "intra" ELSE "inter"
              ELSE UNCHANGED <<src_pos, pc>>
    /\ UNCHANGED <<sl, all_functions, cg, caller_idx, nodes_sorted, node_idx, ir_idx,
                   inter_idx, out>>

\* Lines 909-986 for one Function of all_functions.
InterProceduralEdges ==
    /\ pc = "inter"
    /\ icfg' = [icfg EXCEPT !.icfg_edges =
                   InterEdgesOfNodes(@, icfg, sl, sl.func[all_functions[inter_idx]].nodes)]
    /\ inter_idx' = inter_idx + 1
    /\ pc' = IF inter_idx < Len(all_functions) THEN "inter" ELSE "export"
    /\ UNCHANGED <<sl, all_functions, cg, caller_idx, nodes_sorted, node_idx, ir_idx,
                   src_pos, visited, queue, out>>

\* Lines 989-1071.
Export ==
    /\ pc = "export"
    /\ out' = ExportDocument(cg, icfg, all_functions)
    /\ pc' = "done"
    /\ UNCHANGED <<sl, all_functions, cg, caller_idx, nodes_sorted, node_idx, ir_idx,
                   icfg, src_pos, visited, queue, inter_idx>>

Next ==
    \/ CollectFunctions
    \/ RegisterFunctions
    \/ SortNodes
    \/ ProcessIR
    \/ ProcessNodeSummaries
    \/ SelectNodes
    \/ CreateNodes
    \/ StartBFS
    \/ BFSPop
    \/ InterProceduralEdges
    \/ Export

-----------------------------------------------------------------------------
(* Program Models                                                          *)

Fn(name, signature, implemented, contract, entry, nodes) ==
    [name |-> name, signature |-> signature, is_implemented |-> implemented,
     contract |-> contract, entry_point |-> entry, nodes |-> nodes]

\* A Function without a body: an interface or abstract declaration.
Declared(name, signature, contract) == Fn(name, signature, FALSE, contract, NoneNode, <<>>)

Nd(sm, sons, irs, high_level_calls, internal_calls, low_level_calls) ==
    [source_mapping |-> sm, sons |-> sons, irs |-> irs,
     high_level_calls |-> high_level_calls, internal_calls |-> internal_calls,
     low_level_calls |-> low_level_calls]

\* A Node located at line l (the front end gives the line list and the byte
\* offset; starting_line is not an attribute of its location objects).
AtLine(l) == [exists |-> TRUE, starting_line |-> NoneN, lines |-> <<l>>, start |-> 10 * l]

Op(form, function) == [form |-> form, function |-> function]

\* A Node without calls: an entry point, an assignment, a return.
Plain(sm, sons) == Nd(sm, sons, <<Op("Other", NoneF)>>, <<>>, <<>>, <<>>)

\* The entry-point Node of a Function: it carries no operation.
EntryNode(sm, sons) == Nd(sm, sons, <<>>, <<>>, <<>>, <<>>)

\* The largest line number a Node is placed at.
MaxLine == 3
Lines == 1..MaxLine

-----------------------------------------------------------------------------
(* The Base.set / Caller.run program                                       *)
(*                                                                         *)
(*   contract Base   { uint v; function set(uint x) internal { v = x; } }  *)
(*   contract Caller is Base { function run() public returns (uint)        *)
(*                             { set(5); return v; } }                     *)
(*                                                                         *)
(* Caller is the only derived contract and owns run and the inherited set. *)
(* Nodes 1, 2, 3 are run's entry point, its call "set(5)" and its          *)
(* "return v"; Nodes 4, 5 are set's entry point and its "v = x".  The      *)
(* lines of run's Nodes, the order of Caller's functions and whether the   *)
(* front end filled the call Node's internal_calls summary are left open.  *)

RunEntry == 1
RunCall == 2
RunReturn == 3
SetEntry == 4
SetBody == 5

BaseSetProgram(l, setFirst, summary) ==
    [contracts_derived |-> <<"Caller">>,
     contract |-> [c \in {"Caller"} |->
        [is_library |-> FALSE,
         functions |-> IF setFirst THEN <<"set", "run">> ELSE <<"run", "set">>]],
     func |-> [f \in {"run", "set"} |->
        IF f = "run"
        THEN Fn("run", "run()", TRUE, "Caller", RunEntry, <<RunEntry, RunCall, RunReturn>>)
        ELSE Fn("set", "set(uint256)", TRUE, "Caller", SetEntry, <<SetEntry, SetBody>>)],
     node |-> [n \in {RunEntry, RunCall, RunReturn, SetEntry, SetBody} |->
        CASE n = RunEntry  -> EntryNode(AtLine(l[1]), <<RunCall>>)
          [] n = RunCall   -> Nd(AtLine(l[2]), <<RunReturn>>, <<Op("InternalCall", "set")>>,
                                 <<>>, IF summary THEN <<"set">> ELSE <<>>, <<>>)
          [] n = RunReturn -> Plain(AtLine(l[3]), <<>>)
          [] n = SetEntry  -> EntryNode(AtLine(1), <<SetBody>>)
          [] n = SetBody   -> Plain(AtLine(1), <<>>)]]

InitScenario ==
    \E l \in [1..3 -> Lines], setFirst \in BOOLEAN, summary \in BOOLEAN :
        InitOn(BaseSetProgram(l, setFirst, summary))

SpecScenario == InitScenario /\ [][Next]_vars

\* The edges of the ICFG of a given type, as (source Node, destination Node,
\* call kind) triples.
EdgesOfType(type) ==
    {<<icfg.node_to_id[icfg.icfg_edges[i].src + 1],
       icfg.node_to_id[icfg.icfg_edges[i].dst + 1],
       icfg.icfg_edges[i].call_type>> :
        i \in {j \in DOMAIN icfg.icfg_edges : icfg.icfg_edges[j].type = type}}

NumEdgesOfType(type) ==
    Cardinality({j \in DOMAIN icfg.icfg_edges : icfg.icfg_edges[j].type = type})

\* The Call Graph the scenario expects: one Call Site and one edge
\* Caller.run -> Base.set, kind internal, order 1.
ScenarioCallGraph ==
    /\ cg.call_graph = {<<"run", "set", "internal">>}
    /\ Len(cg.call_sites["run"]) = 1
    /\ cg.call_sites["run"][1].order = 1
    /\ cg.call_sites["run"][1].call_type = "internal"
    /\ cg.call_sites["run"][1].callee_func = "set"
    /\ cg.call_sites["set"] = <<>>
    /\ Len(out.function_edges) = 1
    /\ out.function_edges[1] = [src |-> FuncId(cg, "run"), dst |-> FuncId(cg, "set"),
                                order |-> 1, call_type |-> "internal"]

ScenarioInterEdge ==
    /\ EdgesOfType("inter_procedural") = {<<RunCall, SetEntry, "internal">>}
    /\ NumEdgesOfType("inter_procedural") = 1

\* C9 as stated: for the Base.set / Caller.run program the Call Graph has the
\* single edge run -> set (internal, order 1) and the ICFG has the
\* intra-procedural edges entry(run) -> call node and call node -> return
\* node, plus the inter-procedural edge call node -> entry(set).
C9_AsStated ==
    pc = "done" =>
        /\ ScenarioCallGraph
        /\ <<RunEntry, RunCall, NoneF>> \in EdgesOfType("intra_procedural")
        /\ HasNodeId(icfg, RunReturn)
        /\ <<RunCall, RunReturn, NoneF>> \in EdgesOfType("intra_procedural")
        /\ ScenarioInterEdge

\* C9 amended: the Call Graph and the inter-procedural edge are as stated,
\* but "return v" holds no call, so the return node is no ICFG Node and the
\* only intra-procedural edge is entry(run) -> call node.
C9_Scenario ==
    pc = "done" =>
        /\ ScenarioCallGraph
        /\ EdgesOfType("intra_procedural") = {<<RunEntry, RunCall, NoneF>>}
        /\ NumEdgesOfType("intra_procedural") = 1
        /\ ~HasNodeId(icfg, RunReturn)
        /\ Range(icfg.node_to_id) = {RunEntry, RunCall, SetEntry}
        /\ ScenarioInterEdge

\* The scenario has run to its end with the redundant summary present.
C9_Witness ==
    /\ pc = "done"
    /\ sl.node[RunCall].internal_calls = <<"set">>
    /\ Len(cg.call_sites["run"]) = 1
    /\ Len(icfg.icfg_edges) = 2

-----------------------------------------------------------------------------
(* Control-flow graphs: one Function over every successor graph            *)
(*                                                                         *)
(* contract Loop { function run() ... }: run owns the Nodes 1..GraphNodes, *)
(* Node 1 its entry point.  The successor lists are any graph with at most *)
(* MaxEdges edges (branches, loops, back-edges, self-loops, dead code), the *)
(* entry point having no predecessor; any of the Nodes after the entry     *)
(* point holds a recursive call run().                                     *)

GraphNodes == 4
MaxEdges == 4

RECURSIVE SubsetsUpTo(_, _)
SubsetsUpTo(S, k) ==
    IF k = 0 THEN {{}}
    ELSE LET prev == SubsetsUpTo(S, k - 1)
         IN  prev \cup {A \cup {x} : A \in prev, x \in S}

\* The elements of a set of integers in increasing order.
RECURSIVE Ascending(_)
Ascending(S) ==
    IF S = {} THEN <<>>
    ELSE LET m == CHOOSE x \in S : \A y \in S : x <= y
         IN  <<m>> \o Ascending(S \ {m})

GraphProgram(E, calls) ==
    [contracts_derived |-> <<"Loop">>,
     contract |-> [c \in {"Loop"} |-> [is_library |-> FALSE, functions |-> <<"run">>]],
     func |-> [f \in {"run"} |->
        Fn("run", "run()", TRUE, "Loop", 1, [i \in 1..GraphNodes |-> i])],
     node |-> [n \in 1..GraphNodes |->
        Nd(AtLine(n), Ascending({m \in 1..GraphNodes : <<n, m>> \in E}),
           IF n \in calls THEN <<Op("InternalCall", "run")>>
           ELSE IF n = 1 THEN <<>> ELSE <<Op("Other", NoneF)>>,
           <<>>, <<>>, <<>>)]]

InitGraph ==
    \E E \in SubsetsUpTo((1..GraphNodes) \X (2..GraphNodes), MaxEdges),
       calls \in SUBSET (2..GraphNodes) :
        InitOn(GraphProgram(E, calls))

SpecGraph == InitGraph /\ [][Next]_vars

\* Interesting Nodes, as the reduction defines them: the entry point of the
\* Function, or a Node with a call operation of any kind or a node-level
\* call summary.
HoldsCall(p, n) ==
    \/ \E i \in DOMAIN p.node[n].irs : p.node[n].irs[i].form \in CallForms
    \/ p.node[n].high_level_calls # <<>>
    \/ p.node[n].internal_calls # <<>>
    \/ p.node[n].low_level_calls # <<>>

Interesting(p, f, n) ==
    /\ n \in Range(p.func[f].nodes)
    /\ n = p.func[f].entry_point \/ HoldsCall(p, n)

InterestingNodes(p) ==
    UNION {{n \in Range(p.func[f].nodes) : Interesting(p, f, n)} : f \in Range(all_functions)}

\* The Nodes reached from the set X by going on through the Nodes of X that
\* are not interesting.
RECURSIVE ThroughPlain(_, _, _)
ThroughPlain(X, p, I) ==
    LET Y == X \cup UNION {Range(p.node[x].sons) : x \in X \ I}
    IN  IF Y = X THEN X ELSE ThroughPlain(Y, p, I)

\* The interesting Nodes other than S reachable from S by a path of length
\* >= 1 whose intermediate Nodes are all non-interesting.
Nearest(p, S) ==
    {D \in ThroughPlain(Range(p.node[S].sons), p, InterestingNodes(p)) :
        D \in InterestingNodes(p) /\ D # S}

IntraDone == pc \in {"inter", "export", "done"}

\* A(entry) -> B -> C(call) -> D(call), B without a call.
ChainProgram == GraphProgram({<<1, 2>>, <<2, 3>>, <<3, 4>>}, {3, 4})

\* C2: the reduced graph has the intra-procedural edge S -> D exactly when S
\* and D are interesting Nodes of one Function, D # S, and D is reachable
\* from S by a path of length >= 1 through non-interesting Nodes only (no edge
\* is ever added that is not of this kind; once the reduction is over all of
\* them are there); for A -> B -> C -> D the edges are A -> C and C -> D,
\* without A -> D and without an ICFG Node for B.
C2_Compression ==
    /\ \A e \in EdgesOfType("intra_procedural") :
          \E f \in Range(all_functions) :
              /\ Interesting(sl, f, e[1]) /\ Interesting(sl, f, e[2])
              /\ e[2] \in Nearest(sl, e[1])
    /\ IntraDone =>
          \A f \in Range(all_functions) : \A S \in Range(sl.func[f].nodes) :
              Interesting(sl, f, S) =>
                  /\ HasNodeId(icfg, S)
                  /\ \A D \in Nearest(sl, S) :
                        <<S, D, NoneF>> \in EdgesOfType("intra_procedural")
    /\ (IntraDone /\ sl = ChainProgram) =>
          /\ EdgesOfType("intra_procedural") = {<<1, 3, NoneF>>, <<3, 4, NoneF>>}
          /\ ~HasNodeId(icfg, 2)

\* The chain has been reduced to A -> C -> D.
C2_Witness ==
    /\ pc = "done"
    /\ sl = ChainProgram
    /\ <<1, 3, NoneF>> \in EdgesOfType("intra_procedural")
    /\ <<1, 4, NoneF>> \notin EdgesOfType("intra_procedural")

-----------------------------------------------------------------------------
(* Call order: Nodes at any source position, with any calls                *)
(*                                                                         *)
(* contract Caller { function run() ...; function aux() ... }              *)
(* run owns its entry point (Node 1) and the body Nodes 2..MaxNodes+1, in  *)
(* a chain; every body Node is at any line (or has no source mapping),     *)
(* holds any sequence of at most MaxOps operations out of run() (internal  *)
(* call) and a raw low-level call, and may carry a high_level_calls        *)
(* summary naming run.  aux owns its entry point and one Node that makes   *)
(* a low-level call and then calls run().                                  *)

MaxNodes == 2
MaxOps == 2

BodyNodes == 2..(MaxNodes + 1)
AuxEntry == MaxNodes + 2
AuxBody == MaxNodes + 3

RECURSIVE SeqsUpTo(_, _)
SeqsUpTo(S, k) ==
    IF k = 0 THEN {<<>>}
    ELSE LET prev == SeqsUpTo(S, k - 1)
         IN  prev \cup {Append(q, x) : q \in prev, x \in S}

OrderOps == {Op("InternalCall", "run"), Op("LowLevelCall", NoneF)}
OrderLocations == {AtLine(l) : l \in Lines} \cup {NoSourceMapping}

OrderProgram(loc, ops, summ) ==
    [contracts_derived |-> <<"Caller">>,
     contract |-> [c \in {"Caller"} |-> [is_library |-> FALSE, functions |-> <<"run", "aux">>]],
     func |-> [f \in {"run", "aux"} |->
        IF f = "run"
        THEN Fn("run", "run()", TRUE, "Caller", 1, [i \in 1..(MaxNodes + 1) |-> i])
        ELSE Fn("aux", "aux()", TRUE, "Caller", AuxEntry, <<AuxEntry, AuxBody>>)],
     node |-> [n \in 1..AuxBody |->
        CASE n = 1 -> EntryNode(AtLine(1), <<2>>)
          [] n \in BodyNodes ->
                Nd(loc[n], IF n < MaxNodes + 1 THEN <<n + 1>> ELSE <<>>, ops[n],
                   IF n \in summ THEN <<"run">> ELSE <<>>, <<>>, <<>>)
          [] n = AuxEntry -> EntryNode(AtLine(1), <<AuxBody>>)
          [] n = AuxBody -> Nd(AtLine(2), <<>>,
                               <<Op("LowLevelCall", NoneF), Op("InternalCall", "run")>>,
                               <<>>, <<>>, <<>>)]]

InitOrder ==
    \E loc \in [BodyNodes -> OrderLocations],
       ops \in [BodyNodes -> SeqsUpTo(OrderOps, MaxOps)],
       summ \in SUBSET BodyNodes :
        InitOn(OrderProgram(loc, ops, summ))

SpecOrder == InitOrder /\ [][Next]_vars

\* The order numbers handed out in a list of records.
Orders(recs) == {recs[i].order : i \in DOMAIN recs}

\* The source position a record of Function f comes from: the key of its
\* Node, the place of the Node in the Function's node list, the place of the
\* operation in the Node (a summary comes after every operation).
Position(f, rec) ==
    <<get_node_line(sl, rec.node),
      IndexOf(sl.func[f].nodes, rec.node),
      IF rec.ir = 0 THEN Len(sl.node[rec.node].irs) + 1 ELSE rec.ir>>

LexLess(a, b) ==
    \/ a[1] < b[1]
    \/ a[1] = b[1] /\ a[2] < b[2]
    \/ a[1] = b[1] /\ a[2] = b[2] /\ a[3] < b[3]

\* Call Site numbers of f strictly increase with the source position.
IncreasesWithPosition(f) ==
    \A i, j \in DOMAIN cg.call_sites[f] :
        LET a == cg.call_sites[f][i]
            b == cg.call_sites[f][j]
        IN  a.order < b.order =>
                \/ LexLess(Position(f, a), Position(f, b))
                \/ /\ Position(f, a) = Position(f, b)
                   /\ a.ir = 0 /\ b.ir = 0 /\ i < j

\* C1 as stated: in every Function the order numbers of the Call Sites are
\* exactly 1..n and strictly increase with the source position of the
\* originating Node (ties in node-list order, then in operation order).
C1_AsStated ==
    \A f \in DOMAIN sl.func :
        /\ Orders(cg.call_sites[f]) = 1..Len(cg.call_sites[f])
        /\ IncreasesWithPosition(f)

\* C1 amended: the counter is shared with the low-level-call records, so it
\* is the order numbers of the Call Sites and of the low-level records of a
\* Function together that are exactly 1..n, no number used twice; the Call
\* Site numbers strictly increase with the source position as stated.
C1_Order ==
    \A f \in DOMAIN sl.func :
        LET cs == cg.call_sites[f]
            ll == cg.low_level_calls_by_function[f]
        IN  /\ Orders(cs) \cup Orders(ll) = 1..(Len(cs) + Len(ll))
            /\ Cardinality(Orders(cs)) = Len(cs)
            /\ Orders(cs) \cap Orders(ll) = {}
            /\ (ll = <<>> => Orders(cs) = 1..Len(cs))
            /\ IncreasesWithPosition(f)

\* run is through: its Nodes were visited in another order than the node
\* list, two Call Sites came out of one Node, and a low-level call took a
\* number in between.
C1_Witness ==
    /\ pc = "done"
    /\ \E i, j \in DOMAIN cg.call_sites["run"] :
          /\ i < j
          /\ IndexOf(sl.func["run"].nodes, cg.call_sites["run"][i].node)
               > IndexOf(sl.func["run"].nodes, cg.call_sites["run"][j].node)
    /\ \E i, j \in DOMAIN cg.call_sites["run"] :
          /\ i < j
          /\ cg.call_sites["run"][i].node = cg.call_sites["run"][j].node
          /\ cg.call_sites["run"][i].ir > 0
    /\ cg.low_level_calls_by_function["run"] # <<>>

-----------------------------------------------------------------------------
(* Call kinds: every form of call operation                                *)
(*                                                                         *)
(*   interface Interface { function foo() external; }                      *)
(*   library Lib { function add() ... }                                    *)
(*   contract Impl is Interface { function foo() external {...} }          *)
(*   contract Caller { function run() ...; function set() internal ... }   *)
(*                                                                         *)
(* The derived contracts are Caller, Impl and Lib.  run owns its entry     *)
(* point (Node 1) and the Nodes 2 and 3.  Node 2 holds any sequence of at  *)
(* most MaxOps call operations of any form and target, and may carry       *)
(* node-level summaries; Node 3 holds nothing, a low-level call or set().  *)

ClassOps ==
    {Op("InternalCall", t) : t \in {"set", "add", NoneF}}
    \cup {Op("HighLevelCall", t) : t \in {"foo", "ifoo", NoneF}}
    \cup {Op("LibraryCall", "add"), Op("LowLevelCall", NoneF)}

ClassSummaries ==
    {[high_level_calls |-> h, internal_calls |-> i] :
        h \in {<<>>, <<"ifoo">>}, i \in {<<>>, <<"add">>}}

ClassTail == {<<>>, <<Op("LowLevelCall", NoneF)>>, <<Op("InternalCall", "set")>>}

ClassProgram(ops, summ, tail) ==
    [contracts_derived |-> <<"Caller", "Impl", "Lib">>,
     contract |-> [c \in {"Caller", "Impl", "Lib", "Interface"} |->
        [is_library |-> (c = "Lib"),
         functions |-> CASE c = "Caller" -> <<"run", "set">>
                         [] c = "Impl" -> <<"foo">>
                         [] c = "Lib" -> <<"add">>
                         [] c = "Interface" -> <<"ifoo">>]],
     func |-> [f \in {"run", "set", "foo", "add", "ifoo"} |->
        CASE f = "run" -> Fn("run", "run()", TRUE, "Caller", 1, <<1, 2, 3>>)
          [] f = "set" -> Fn("set", "set()", TRUE, "Caller", 4, <<4>>)
          [] f = "foo" -> Fn("foo", "foo()", TRUE, "Impl", 5, <<5>>)
          [] f = "add" -> Fn("add", "add()", TRUE, "Lib", 6, <<6>>)
          [] f = "ifoo" -> Declared("foo", "foo()", "Interface")],
     node |-> [n \in 1..6 |->
        CASE n = 1 -> EntryNode(AtLine(1), <<2>>)
          [] n = 2 -> Nd(AtLine(2), <<3>>, ops, summ.high_level_calls, summ.internal_calls, <<>>)
          [] n = 3 -> Nd(AtLine(3), <<>>, tail, <<>>, <<>>, <<>>)
          [] OTHER -> EntryNode(AtLine(1), <<>>)]]

InitClassify ==
    \E ops \in SeqsUpTo(ClassOps, MaxOps), summ \in ClassSummaries, tail \in ClassTail :
        InitOn(ClassProgram(ops, summ, tail))

SpecClassify == InitClassify /\ [][Next]_vars

\* The call graph of every Function has been built.
CallGraphDone == pc \in {"select", "create", "intra", "bfs", "inter", "export", "done"}

\* The operations of Function f, as (Node, position) pairs, that satisfy P.
OpsOf(f, P(_)) ==
    {x \in UNION {{<<n, i>> : i \in DOMAIN sl.node[n].irs} : n \in Range(sl.func[f].nodes)} :
        P(sl.node[x[1]].irs[x[2]])}

\* The (Node, position) pairs the records of a list come from.
Origins(recs) == {<<recs[i].node, recs[i].ir>> : i \in DOMAIN recs}

LexLeq(a, b) == a = b \/ LexLess(a, b)

\* How many records of f (Call Sites and low-level records) come from a
\* source position not after that of rec.
RankByPosition(f, rec) ==
    LET cs == cg.call_sites[f]
        ll == cg.low_level_calls_by_function[f]
    IN  Cardinality({i \in DOMAIN cs : LexLeq(Position(f, cs[i]), Position(f, rec))})
        + Cardinality({i \in DOMAIN ll : LexLeq(Position(f, ll[i]), Position(f, rec))})

IsLowLevelOp(ir) == ir.form = "LowLevelCall"

\* The inter-procedural edges that leave Node n.
InterEdgesFrom(n) ==
    {i \in DOMAIN icfg.icfg_edges :
        /\ icfg.icfg_edges[i].type = "inter_procedural"
        /\ icfg.icfg_edges[i].src = NodeId(icfg, n)}

\* The calls of Node n that are not low-level operations.
OtherCalls(n) ==
    Cardinality({i \in DOMAIN sl.node[n].irs :
                    sl.node[n].irs[i].form \in CallForms \ {"LowLevelCall"}})
    + Len(sl.node[n].high_level_calls) + Len(sl.node[n].internal_calls)

\* C4: every low-level call operation yields exactly one record of the
\* low-level-call list of its Function, numbered by its place among all the
\* recorded calls of the Function; it yields no Call Site, every Call Graph
\* edge comes from a Call Site, and a Node has no more inter-procedural edges
\* than it has calls that are not low-level.
C4_LowLevel ==
    CallGraphDone =>
        /\ \A f \in DOMAIN sl.func :
            LET ll == cg.low_level_calls_by_function[f]
                cs == cg.call_sites[f]
            IN  /\ Origins(ll) = OpsOf(f, IsLowLevelOp)
                /\ Len(ll) = Cardinality(OpsOf(f, IsLowLevelOp))
                /\ \A i \in DOMAIN ll : ll[i].order = RankByPosition(f, ll[i])
                /\ Origins(cs) \cap OpsOf(f, IsLowLevelOp) = {}
        /\ \A e \in cg.call_graph :
            \E i \in DOMAIN cg.call_sites[e[1]] :
                /\ cg.call_sites[e[1]][i].callee_func = e[2]
                /\ cg.call_sites[e[1]][i].call_type = e[3]
        /\ \A n \in Range(icfg.node_to_id) :
            Cardinality(InterEdgesFrom(n)) <= OtherCalls(n)

\* run forwards one raw call and calls nothing else: one low-level record,
\* no Call Site, no Call Graph edge, no inter-procedural edge.
C4_Witness ==
    /\ pc = "done"
    /\ Len(cg.low_level_calls_by_function["run"]) = 1
    /\ cg.low_level_calls_by_function["run"][1].order = 1
    /\ cg.call_sites["run"] = <<>>
    /\ cg.call_graph = {}
    /\ HasNodeId(icfg, 3) /\ InterEdgesFrom(3) = {}
    /\ sl.node[2].irs = <<>>

IsTargetless(ir) == ir.form \in CallForms /\ ir.function = NoneF

\* C5 as stated: every call operation without a target Function, whatever
\* its form, is recorded in the low-level-call list and is no Call Site.
C5_AsStated ==
    CallGraphDone =>
        \A f \in DOMAIN sl.func :
            /\ OpsOf(f, IsTargetless) \subseteq Origins(cg.low_level_calls_by_function[f])
            /\ OpsOf(f, IsTargetless) \cap Origins(cg.call_sites[f]) = {}

IsLibraryTargetOp(ir) ==
    /\ ir.form \in {"InternalCall", "LibraryCall"}
    /\ ir.function # NoneF
    /\ IsLibraryFunction(sl, ir.function)

\* C6 as stated: every call operation of the internal-call form or of the
\* library-call form whose target belongs to a library contract is a Call
\* Site of kind library, and the Call Graph has the library edge.
C6_AsStated ==
    CallGraphDone =>
        \A f \in DOMAIN sl.func : \A x \in OpsOf(f, IsLibraryTargetOp) :
            LET g == find_function_implementation(sl, sl.node[x[1]].irs[x[2]].function) IN
            /\ \E i \in DOMAIN cg.call_sites[f] :
                  /\ cg.call_sites[f][i].node = x[1]
                  /\ cg.call_sites[f][i].ir = x[2]
                  /\ cg.call_sites[f][i].call_type = "library"
            /\ <<f, g, "library">> \in cg.call_graph

\* The nodes and edges of the reduced graph exist.
NodesCreated == pc \in {"intra", "bfs", "inter", "export", "done"}

\* C10: every collected Function with an entry-point Node has an ICFG Node
\* for it, flagged is_entry_point and owned by the Function, whether or not
\* the Function holds a call.
C10_EntryPoints ==
    NodesCreated =>
        \A k \in DOMAIN all_functions :
            LET f == all_functions[k]
                e == sl.func[f].entry_point
            IN  e # NoneNode =>
                    /\ HasNodeId(icfg, e)
                    /\ icfg.icfg_nodes[NodeId(icfg, e) + 1].is_entry_point
                    /\ icfg.icfg_nodes[NodeId(icfg, e) + 1].function = f
                    /\ icfg.icfg_nodes[NodeId(icfg, e) + 1].id = NodeId(icfg, e)

\* No Function holds a call of any kind, and each has its entry-point Node
\* in the reduced graph.
C10_Witness ==
    /\ pc = "done"
    /\ \A f \in DOMAIN sl.func : \A n \in Range(sl.func[f].nodes) : ~HoldsCall(sl, n)
    /\ \A k \in DOMAIN all_functions : HasNodeId(icfg, sl.func[all_functions[k]].entry_point)
    /\ Len(icfg.icfg_nodes) = Len(all_functions)
    /\ Len(all_functions) = 4

\* The program p with one more entry, naming Function g, at the end of the
\* node-level summary list (high_level_calls or internal_calls) of Node m.
AddSummary(p, m, list, g) ==
    IF list = "high_level_calls"
    THEN [p EXCEPT !.node[m].high_level_calls = Append(@, g)]
    ELSE [p EXCEPT !.node[m].internal_calls = Append(@, g)]

\* The kind of a call operation as the classification rules give it: library
\* for a target in a library contract (internal form or library-call form),
\* internal for any other internal-form call, high-level for the high-level
\* form.
StatedKind(ir) ==
    IF ir.form = "LibraryCall" THEN "library"
    ELSE IF ir.form = "InternalCall"
         THEN (IF IsLibraryFunction(sl, ir.function) THEN "library" ELSE "internal")
         ELSE "high_level"

\* The kind a summary entry for g stands for, by the list it is in.
SummaryKind(list, g) ==
    IF list = "high_level_calls" THEN "high_level"
    ELSE SummaryCallType(sl, find_function_implementation(sl, g))

IsTargetedCall(ir) ==
    ir.form \in {"InternalCall", "HighLevelCall", "LibraryCall"} /\ ir.function # NoneF

\* Node m of f is visited no earlier than Node n.
NotBefore(f, m, n) == IndexOf(SortNodesOf(sl, f), m) >= IndexOf(SortNodesOf(sl, f), n)

\* The edges and the number of Call Sites of p's call graph are those of the
\* call graph that was built.
SameCallGraph(p) ==
    LET r == BuildCallGraph(p).cg IN
    /\ r.call_graph = cg.call_graph
    /\ \A f \in DOMAIN sl.func : Len(r.call_sites[f]) = Len(cg.call_sites[f])

\* C3 as stated: take any call operation with a target, of any form, in a
\* Function f; add to its Node or to a Node of f visited later a summary
\* entry for the same target in the list that stands for the same kind
\* of call.  The call graph of the changed program has the same edges
\* (caller, callee, kind) and as many Call Sites in each Function.
C3_AsStated ==
    pc = "done" =>
        \A f \in DOMAIN sl.func : \A x \in OpsOf(f, IsTargetedCall) :
            LET ir == sl.node[x[1]].irs[x[2]] IN
            \A m \in Range(sl.func[f].nodes) :
            \A list \in {"high_level_calls", "internal_calls"} :
                (NotBefore(f, m, x[1]) /\ SummaryKind(list, ir.function) = StatedKind(ir))
                    => SameCallGraph(AddSummary(sl, m, list, ir.function))

-----------------------------------------------------------------------------
(* Resolution: declarations and their implementations                      *)
(*                                                                         *)
(*   interface Interface { function foo(..) external; }                    *)
(*   contract A { function run() ...; <a1>; <a2> }                         *)
(*   contract B { <b1> }                                                   *)
(*                                                                         *)
(* The derived contracts are A and B.  a1, a2 and b1 are each one of the   *)
(* Functions of ResolveCandidates: named foo or bar, with one of two       *)
(* parameter lists or without signature information, implemented or only  *)
(* declared.  run calls Interface.foo or a1 from Node 2, by an internal or *)
(* a high-level call operation.                                            *)

ResolveCandidates ==
    {[name |-> "foo", signature |-> "foo(uint256)", is_implemented |-> TRUE],
     [name |-> "foo", signature |-> "foo(address)", is_implemented |-> TRUE],
     [name |-> "foo", signature |-> Absent, is_implemented |-> TRUE],
     [name |-> "bar", signature |-> "bar(uint256)", is_implemented |-> TRUE],
     [name |-> "foo", signature |-> "foo(uint256)", is_implemented |-> FALSE]}

ResolveSignatures == {"foo(uint256)", "foo(address)", Absent}

ResolveCalls ==
    {Op(form, t) : form \in {"InternalCall", "HighLevelCall"}, t \in {"ifoo", "a1"}}

\* The Function of contract c with the attributes a and the entry point e.
Candidate(a, c, e) ==
    IF a.is_implemented
    THEN Fn(a.name, a.signature, TRUE, c, e, <<e>>)
    ELSE Declared(a.name, a.signature, c)

ResolveProgram(a1, a2, b1, sig, call) ==
    [contracts_derived |-> <<"A", "B">>,
     contract |-> [c \in {"A", "B", "Interface"} |->
        [is_library |-> FALSE,
         functions |-> CASE c = "A" -> <<"run", "a1", "a2">>
                         [] c = "B" -> <<"b1">>
                         [] c = "Interface" -> <<"ifoo">>]],
     func |-> [f \in {"run", "a1", "a2", "b1", "ifoo"} |->
        CASE f = "run" -> Fn("run", "run()", TRUE, "A", 1, <<1, 2>>)
          [] f = "a1" -> Candidate(a1, "A", 3)
          [] f = "a2" -> Candidate(a2, "A", 4)
          [] f = "b1" -> Candidate(b1, "B", 5)
          [] f = "ifoo" -> Declared("foo", sig, "Interface")],
     node |-> [n \in 1..5 |->
        CASE n = 1 -> EntryNode(AtLine(1), <<2>>)
          [] n = 2 -> Nd(AtLine(2), <<>>, <<call>>, <<>>, <<>>, <<>>)
          [] OTHER -> EntryNode(AtLine(1), <<>>)]]

InitResolve ==
    \E a1 \in ResolveCandidates, a2 \in ResolveCandidates, b1 \in ResolveCandidates,
       sig \in ResolveSignatures, call \in ResolveCalls :
        InitOn(ResolveProgram(a1, a2, b1, sig, call))

SpecResolve == InitResolve /\ [][Next]_vars

\* The Functions of the derived contracts in encounter order: contract by
\* contract, each contract's functions in their order.
Scan == DerivedFunctions(sl, sl.contracts_derived)

\* Places of the scan holding an implemented Function of func's name whose
\* signature, when both sides have one, equals func's.
Acceptable(func) ==
    {i \in DOMAIN Scan :
        /\ sl.func[Scan[i]].is_implemented
        /\ sl.func[Scan[i]].name = sl.func[func].name
        /\ (sl.func[Scan[i]].signature # Absent /\ sl.func[func].signature # Absent)
              => sl.func[Scan[i]].signature = sl.func[func].signature}

Least(S) == CHOOSE i \in S : \A j \in S : i <= j

Expected(func) ==
    IF sl.func[func].is_implemented THEN func
    ELSE IF Acceptable(func) = {} THEN func
    ELSE Scan[Least(Acceptable(func))]

\* The Call Sites of f that come from the operation at place i of Node n.
SitesOfOp(f, n, i) ==
    {k \in DOMAIN cg.call_sites[f] :
        cg.call_sites[f][k].node = n /\ cg.call_sites[f][k].ir = i}

Implementations(t) ==
    {i \in DOMAIN Scan :
        /\ sl.func[Scan[i]].is_implemented
        /\ sl.func[Scan[i]].name = sl.func[t].name
        /\ sl.func[Scan[i]].signature # Absent
        /\ sl.func[Scan[i]].signature = sl.func[t].signature}

\* t and every implemented Function of its name carry signature information,
\* as every Function of the front end does.
SignaturesKnown(t) ==
    /\ sl.func[t].signature # Absent
    /\ \A i \in DOMAIN Scan :
          (sl.func[Scan[i]].is_implemented /\ sl.func[Scan[i]].name = sl.func[t].name)
              => sl.func[Scan[i]].signature # Absent

IsAbstractCall(ir) ==
    /\ IsTargetedCall(ir)
    /\ ~sl.func[ir.function].is_implemented
    /\ SignaturesKnown(ir.function)
    /\ Implementations(ir.function) # {}

-----------------------------------------------------------------------------
(* Inter-procedural edges and the kinds of the call graph                  *)

\* The entry-point Node of the Function the target of ir resolves to.
ResolvedEntry(ir) == sl.func[find_function_implementation(sl, ir.function)].entry_point

IsEdgeCall(ir) ==
    /\ IsTargetedCall(ir)
    /\ ResolvedEntry(ir) # NoneNode
    /\ HasNodeId(icfg, ResolvedEntry(ir))

\* C11 as stated: for every call operation of a Node N whose target resolves
\* to a Function with its entry point in the reduced graph, the graph has an
\* inter-procedural edge from N to that entry point whose call_type is the
\* kind recorded for the Call Site of the operation.
C11_AsStated ==
    pc = "done" =>
        \A f \in DOMAIN sl.func : \A x \in OpsOf(f, IsEdgeCall) :
            \A k \in SitesOfOp(f, x[1], x[2]) :
                \E i \in InterEdgesFrom(x[1]) :
                    /\ icfg.icfg_edges[i].dst = NodeId(icfg, ResolvedEntry(sl.node[x[1]].irs[x[2]]))
                    /\ icfg.icfg_edges[i].call_type = cg.call_sites[f][k].call_type

-----------------------------------------------------------------------------
(* The whole run as a function of the Program Model                        *)

\* The while loop of lines 882-906 run until the queue is empty.
RECURSIVE RunBFS(_, _, _, _)
RunBFS(b, ic, p, src_id) ==
    IF b.queue = <<>> THEN b.edges
    ELSE RunBFS(BFSStep(b, ic, p, src_id), ic, p, src_id)

\* Lines 873-906 for the source Nodes srcs of one Function.
RECURSIVE IntraEdgesOfSources(_, _, _, _)
IntraEdgesOfSources(edges, ic, p, srcs) ==
    IF srcs = <<>> THEN edges
    ELSE IntraEdgesOfSources(
            RunBFS([visited |-> {}, queue |-> << <<Head(srcs), Head(srcs)>> >>, edges |-> edges],
                   ic, p, NodeId(ic, Head(srcs))),
            ic, p, Tail(srcs))

\* Lines 868-906.
RECURSIVE IntraEdges(_, _, _, _)
IntraEdges(edges, ic, p, fs) ==
    IF fs = <<>> THEN edges
    ELSE IntraEdges(IntraEdgesOfSources(edges, ic, p, FuncCallSites(ic, p, Head(fs))),
                    ic, p, Tail(fs))

\* Lines 909-986.
RECURSIVE InterEdges(_, _, _, _)
InterEdges(edges, ic, p, fs) ==
    IF fs = <<>> THEN edges
    ELSE InterEdges(InterEdgesOfNodes(edges, ic, p, p.func[Head(fs)].nodes), ic, p, Tail(fs))

\* Lines 834-986.
BuildICFG(p, fs) ==
    LET ic == CreateICFGNodes(SelectCallSiteNodes(EmptyICFG, p, fs), p, fs)
    IN  [ic EXCEPT !.icfg_edges = InterEdges(IntraEdges(<<>>, ic, p, fs), ic, p, fs)]

\* main from line 267 to line 1071: what a run on p ends with.
Pipeline(p) ==
    LET fs == CollectAllFunctions(p)
        b  == BuildCallGraph(p)
        ic == BuildICFG(p, fs)
    IN  IF b.raised
        THEN [raised |-> TRUE, cg |-> b.cg, icfg |-> EmptyICFG, out |-> NoDocument]
        ELSE [raised |-> FALSE, cg |-> b.cg, icfg |-> ic,
              out |-> ExportDocument(b.cg, ic, fs)]

-----------------------------------------------------------------------------
(* Node selection: what a Node may hold                                    *)
(*                                                                         *)
(*   contract Caller { function run() ...; function set() ... }            *)
(*                                                                         *)
(* run owns its entry point (Node 1) and the Nodes 2 and 3, set its entry  *)
(* point (Node 4) and Node 5.  Each of the Nodes 2, 3 and 5 holds one of   *)
(* the contents of NodeContents: nothing, an operation that is no call, a  *)
(* call operation of some form, or only a node-level summary.              *)

NodeContents ==
    {[irs |-> <<>>, high_level_calls |-> <<>>, internal_calls |-> <<>>, low_level_calls |-> <<>>],
     [irs |-> <<Op("Other", NoneF)>>, high_level_calls |-> <<>>, internal_calls |-> <<>>, low_level_calls |-> <<>>],
     [irs |-> <<Op("InternalCall", "set")>>, high_level_calls |-> <<>>, internal_calls |-> <<>>, low_level_calls |-> <<>>],
     [irs |-> <<Op("HighLevelCall", NoneF)>>, high_level_calls |-> <<>>, internal_calls |-> <<>>, low_level_calls |-> <<>>],
     [irs |-> <<Op("LowLevelCall", NoneF)>>, high_level_calls |-> <<>>, internal_calls |-> <<>>, low_level_calls |-> <<>>],
     [irs |-> <<Op("Other", NoneF)>>, high_level_calls |-> <<"set">>, internal_calls |-> <<>>, low_level_calls |-> <<>>],
     [irs |-> <<Op("Other", NoneF)>>, high_level_calls |-> <<>>, internal_calls |-> <<"set">>, low_level_calls |-> <<>>],
     [irs |-> <<Op("Other", NoneF)>>, high_level_calls |-> <<>>, internal_calls |-> <<>>, low_level_calls |-> <<"call">>],
     [irs |-> <<>>, high_level_calls |-> <<NoneF>>, internal_calls |-> <<>>, low_level_calls |-> <<>>]}

Holding(c, sm, sons) ==
    Nd(sm, sons, c.irs, c.high_level_calls, c.internal_calls, c.low_level_calls)

SelectProgram(c) ==
    [contracts_derived |-> <<"Caller">>,
     contract |-> [k \in {"Caller"} |-> [is_library |-> FALSE, functions |-> <<"run", "set">>]],
     func |-> [f \in {"run", "set"} |->
        IF f = "run"
        THEN Fn("run", "run()", TRUE, "Caller", 1, <<1, 2, 3>>)
        ELSE Fn("set", "set()", TRUE, "Caller", 4, <<4, 5>>)],
     node |-> [n \in 1..5 |->
        CASE n = 1 -> EntryNode(AtLine(1), <<2>>)
          [] n = 2 -> Holding(c[2], AtLine(2), <<3>>)
          [] n = 3 -> Holding(c[3], AtLine(3), <<>>)
          [] n = 4 -> EntryNode(AtLine(1), <<5>>)
          [] n = 5 -> Holding(c[5], AtLine(2), <<>>)]]

InitSelect == \E c \in [{2, 3, 5} -> NodeContents] : InitOn(SelectProgram(c))

SpecSelect == InitSelect /\ [][Next]_vars

\* C13: no Node is an ICFG Node unless it is a Node of a collected Function
\* and is an entry point, holds a call operation of some form (low-level
\* included) or carries a node-level summary (high-level, internal or
\* low-level); once the Nodes are created every such Node is an ICFG Node,
\* exactly once, with the ids 0, 1, 2, ...
C13_NodeSet ==
    /\ Range(icfg.node_to_id) \subseteq InterestingNodes(sl)
    /\ NodesCreated =>
        /\ Range(icfg.node_to_id) = InterestingNodes(sl)
        /\ Len(icfg.node_to_id) = Cardinality(InterestingNodes(sl))
        /\ Len(icfg.icfg_nodes) = Len(icfg.node_to_id)
        /\ \A i \in DOMAIN icfg.icfg_nodes : icfg.icfg_nodes[i].id = i - 1

\* Node 2 holds nothing but a low-level call, Node 3 carries nothing but a
\* low-level summary, Node 5 holds an operation that is no call: 2 and 3
\* are ICFG Nodes beside the two entry points, 5 is not.
C13_Witness ==
    /\ pc = "done"
    /\ sl.node[2].irs = <<Op("LowLevelCall", NoneF)>>
    /\ sl.node[3].low_level_calls # <<>>
    /\ sl.node[5].irs = <<Op("Other", NoneF)>> /\ ~HoldsCall(sl, 5)
    /\ Range(icfg.node_to_id) = {1, 2, 3, 4}

-----------------------------------------------------------------------------
(* Reachability in the full and in the reduced graph                       *)

Sons(n) == Range(sl.node[n].sons)

\* The Nodes an intra-procedural edge of the reduced graph leads to from n.
IntraSons(n) == {e[2] : e \in {d \in EdgesOfType("intra_procedural") : d[1] = n}}

RECURSIVE FullClosure(_)
FullClosure(X) ==
    LET Y == X \cup UNION {Sons(x) : x \in X}
    IN  IF Y = X THEN X ELSE FullClosure(Y)

RECURSIVE ReducedClosure(_)
ReducedClosure(X) ==
    LET Y == X \cup UNION {IntraSons(x) : x \in X}
    IN  IF Y = X THEN X ELSE ReducedClosure(Y)

\* The Nodes reachable from S by a path of length >= 1.
FullReach(S) == FullClosure(Sons(S))
ReducedReach(S) == ReducedClosure(IntraSons(S))

\* C14: once the reduction is over, for any two distinct interesting Nodes
\* S and D of one Function, D is reachable from S in the successor graph of
\* the Function exactly when D is reachable from S along intra-procedural
\* edges of the reduced graph.
C14_Reachability ==
    IntraDone =>
        \A f \in Range(all_functions) : \A S, D \in Range(sl.func[f].nodes) :
            (Interesting(sl, f, S) /\ Interesting(sl, f, D) /\ S # D) =>
                (D \in FullReach(S) <=> D \in ReducedReach(S))

\* The successor graph branches and has a cycle through a Node with a call;
\* some interesting Node is reached in the reduced graph only by way of
\* another one, and some interesting Node is not reachable from another.
C14_Witness ==
    /\ pc = "done"
    /\ \E n \in 1..GraphNodes : Cardinality(Sons(n)) >= 2
    /\ \E n \in 1..GraphNodes : HoldsCall(sl, n) /\ n \in FullReach(n)
    /\ \E S, D \in InterestingNodes(sl) :
          S # D /\ D \in ReducedReach(S) /\ D \notin IntraSons(S)
    /\ \E S, D \in InterestingNodes(sl) : S # D /\ D \notin FullReach(S)

-----------------------------------------------------------------------------
(* Collection: which Functions are input                                   *)
(*                                                                         *)
(*   contract Caller { function run() ...; function set() ... }            *)
(*   contract Other { function foo() ... }                                 *)
(*                                                                         *)
(* The derived contracts are any of Caller and Other in any order, none    *)
(* included; each of run, set and foo is implemented or only declared.     *)
(* Node 2 of run holds one of the operation lists of CollectOps.           *)

CollectDerived == {<<>>, <<"Caller">>, <<"Other">>, <<"Caller", "Other">>, <<"Other", "Caller">>}

CollectOps ==
    {<<Op("InternalCall", "set")>>, <<Op("HighLevelCall", "foo")>>,
     <<Op("LowLevelCall", NoneF)>>,
     <<Op("InternalCall", "set"), Op("HighLevelCall", "foo")>>}

CollectProgram(derived, impl, ops) ==
    [contracts_derived |-> derived,
     contract |-> [c \in {"Caller", "Other"} |->
        [is_library |-> FALSE,
         functions |-> IF c = "Caller" THEN <<"run", "set">> ELSE <<"foo">>]],
     func |-> [f \in {"run", "set", "foo"} |->
        CASE f = "run" -> IF f \in impl THEN Fn("run", "run()", TRUE, "Caller", 1, <<1, 2>>)
                          ELSE Declared("run", "run()", "Caller")
          [] f = "set" -> IF f \in impl THEN Fn("set", "set()", TRUE, "Caller", 3, <<3>>)
                          ELSE Declared("set", "set()", "Caller")
          [] f = "foo" -> IF f \in impl THEN Fn("foo", "foo()", TRUE, "Other", 4, <<4>>)
                          ELSE Declared("foo", "foo()", "Other")],
     node |-> [n \in 1..4 |->
        CASE n = 1 -> EntryNode(AtLine(1), <<2>>)
          [] n = 2 -> Nd(AtLine(2), <<>>, ops, <<>>, <<>>, <<>>)
          [] OTHER -> EntryNode(AtLine(1), <<>>)]]

InitCollect ==
    \E derived \in CollectDerived, impl \in SUBSET {"run", "set", "foo"}, ops \in CollectOps :
        InitOn(CollectProgram(derived, impl, ops))

SpecCollect == InitCollect /\ [][Next]_vars

\* main is a sequential program: it keeps running until it ends or raises.
FairCollect == SpecCollect /\ WF_vars(Next)

\* No derived contract has an implemented Function.
NoInputFunctions ==
    \A i \in DOMAIN sl.contracts_derived :
        \A f \in Range(sl.contract[sl.contracts_derived[i]].functions) :
            ~sl.func[f].is_implemented

EmptyCallGraph ==
    /\ cg.func_to_id = <<>>
    /\ cg.call_graph = {}
    /\ \A f \in DOMAIN sl.func :
          cg.call_sites[f] = <<>> /\ cg.low_level_calls_by_function[f] = <<>>

EmptyDocument ==
    /\ out.function_nodes = <<>> /\ out.function_edges = <<>> /\ out.low_level_calls = <<>>
    /\ out.icfg_nodes = <<>> /\ out.icfg_edges = <<>>

\* C15: when no Function is input the run never raises, the call graph
\* stays without functions, edges, Call Sites and low-level records and the
\* ICFG without Nodes and edges all along, and the run goes on to its end,
\* where the exported document is empty.
C15_NoFunctions ==
    /\ [](NoInputFunctions =>
            /\ pc # "raised"
            /\ all_functions = <<>>
            /\ EmptyCallGraph
            /\ icfg.icfg_nodes = <<>> /\ icfg.icfg_edges = <<>>
            /\ EmptyDocument)
    /\ (NoInputFunctions /\ pc = "collect") ~> (pc = "done" /\ EmptyDocument)

\* The run is over for a program whose derived contracts only declare
\* their Functions.
C15_Witness ==
    /\ pc = "done"
    /\ NoInputFunctions
    /\ sl.contracts_derived = <<"Caller", "Other">>
    /\ EmptyCallGraph /\ EmptyDocument

-----------------------------------------------------------------------------
(* One counter for Call Sites and low-level records                        *)

\* The Call Sites and the low-level records of f, as (order, position,
\* from a summary) triples.
Numbered(f) ==
    {<<cg.call_sites[f][i].order, Position(f, cg.call_sites[f][i]),
       cg.call_sites[f][i].ir = 0>> : i \in DOMAIN cg.call_sites[f]}
    \cup {<<cg.low_level_calls_by_function[f][i].order,
            Position(f, cg.low_level_calls_by_function[f][i]), FALSE>> :
                i \in DOMAIN cg.low_level_calls_by_function[f]}

\* C16: in every Function the order numbers of the Call Sites and of the
\* low-level records together are exactly 1..n, each used once (so the
\* numbering of each Function starts at 1), and a record with a smaller
\* number comes from an earlier place: an earlier Node in sorted order or
\* an earlier operation of the same Node (summaries come after the
\* operations of their Node).
C16_SharedCounter ==
    \A f \in DOMAIN sl.func :
        LET cs == cg.call_sites[f]
            ll == cg.low_level_calls_by_function[f]
        IN  /\ {r[1] : r \in Numbered(f)} = 1..(Len(cs) + Len(ll))
            /\ Cardinality(Orders(cs)) = Len(cs)
            /\ Cardinality(Orders(ll)) = Len(ll)
            /\ Orders(cs) \cap Orders(ll) = {}
            /\ \A a, b \in Numbered(f) :
                  a[1] < b[1] =>
                      \/ LexLess(a[2], b[2])
                      \/ a[2] = b[2] /\ a[3] /\ b[3]

\* run has a low-level record numbered between two Call Sites, from Nodes
\* visited in another order than the node list, and the numbering of aux
\* starts again at 1 with its low-level record.
C16_Witness ==
    /\ pc = "done"
    /\ \E i, j \in DOMAIN cg.call_sites["run"] :
       \E k \in DOMAIN cg.low_level_calls_by_function["run"] :
          /\ cg.call_sites["run"][i].order < cg.low_level_calls_by_function["run"][k].order
          /\ cg.low_level_calls_by_function["run"][k].order < cg.call_sites["run"][j].order
    /\ SortNodesOf(sl, "run") # sl.func["run"].nodes
    /\ cg.low_level_calls_by_function["aux"][1].order = 1
    /\ cg.call_sites["aux"][1].order = 2

-----------------------------------------------------------------------------
(* Source locations: what get_node_line may find                           *)
(*                                                                         *)
(*   contract Caller { function run() { aux(); aux(); }  function aux() }  *)
(*                                                                         *)
(* run owns its entry point (Node 1, at line 1) and the Nodes 2 and 3,     *)
(* each holding one call of aux; aux owns its entry point (Node 4) alone.  *)
(* The Nodes 2, 3 and 4 carry any of the locations of LocateLocations.     *)

\* A location with a starting_line attribute.
StartingAt(l) == [exists |-> TRUE, starting_line |-> l, lines |-> <<>>, start |-> AbsentN]

\* A location with an empty line list and the byte offset o.
AtOffset(o) == [exists |-> TRUE, starting_line |-> NoneN, lines |-> <<>>, start |-> o]

\* A location object with none of the three attributes.
NoLineNoOffset == AtOffset(AbsentN)

\* A location object whose lines and start are both None.
OffsetNone == AtOffset(NoneN)

\* A byte offset in a source file of more than a megabyte.
LargeOffset == SENTINEL + 1

LocateLocations ==
    {AtLine(1), AtLine(MaxLine), StartingAt(2), AtOffset(SENTINEL - 1), AtOffset(LargeOffset),
     NoSourceMapping, NoLineNoOffset, OffsetNone}

LocateProgram(loc) ==
    [contracts_derived |-> <<"Caller">>,
     contract |-> [c \in {"Caller"} |-> [is_library |-> FALSE, functions |-> <<"run", "aux">>]],
     func |-> [f \in {"run", "aux"} |->
        IF f = "run"
        THEN Fn("run", "run()", TRUE, "Caller", 1, <<1, 2, 3>>)
        ELSE Fn("aux", "aux()", TRUE, "Caller", 4, <<4>>)],
     node |-> [n \in 1..4 |->
        CASE n = 1 -> EntryNode(AtLine(1), <<2>>)
          [] n = 2 -> Nd(loc[2], <<3>>, <<Op("InternalCall", "aux")>>, <<>>, <<>>, <<>>)
          [] n = 3 -> Nd(loc[3], <<>>, <<Op("InternalCall", "aux")>>, <<>>, <<>>, <<>>)
          [] n = 4 -> EntryNode(loc[4], <<>>)]]

InitLocate == \E loc \in [{2, 3, 4} -> LocateLocations] : InitOn(LocateProgram(loc))

SpecLocate == InitLocate /\ [][Next]_vars

\* The location of Node n gives a line number or a byte offset.
HasLineOrOffset(n) ==
    LET sm == sl.node[n].source_mapping IN
    /\ sm.exists
    /\ sm.starting_line # NoneN \/ sm.lines # <<>> \/ sm.start \notin {AbsentN, NoneN}

\* Node n has no location, or a location object with no line and no start
\* attribute.
HasNoLocation(n) ==
    LET sm == sl.node[n].source_mapping IN
    \/ ~sm.exists
    \/ sm.starting_line = NoneN /\ sm.lines = <<>> /\ sm.start = AbsentN

\* The order numbers of the records of f that come from Node n.
OrdersFrom(f, n) ==
    {cg.call_sites[f][i].order : i \in {j \in DOMAIN cg.call_sites[f] : cg.call_sites[f][j].node = n}}
    \cup {cg.low_level_calls_by_function[f][i].order :
            i \in {j \in DOMAIN cg.low_level_calls_by_function[f] :
                      cg.low_level_calls_by_function[f][j].node = n}}

\* C17 as stated: a Node without line number and byte offset has a key
\* strictly larger than the key of every Node of its Function that has a
\* line number or a byte offset, and once the Function is through, its
\* calls have larger order numbers than the calls of every such Node.
C17_AsStated ==
    \A f \in DOMAIN sl.func : \A m, n \in Range(sl.func[f].nodes) :
        (HasNoLocation(m) /\ HasLineOrOffset(n)) =>
            /\ get_node_line(sl, m) > get_node_line(sl, n)
            /\ CallGraphDone =>
                  \A a \in OrdersFrom(f, m) : \A b \in OrdersFrom(f, n) : a > b

\* Node n has no location, or a location whose line data and byte offset
\* are absent or None.
MissingLocationData(n) ==
    LET sm == sl.node[n].source_mapping IN
    \/ ~sm.exists
    \/ sm.starting_line = NoneN /\ sm.lines = <<>> /\ sm.start \in {AbsentN, NoneN}

\* C18 as stated: every Node with missing location data has the sentinel as
\* its key, and the run never stops in the sort of a Function's Nodes.
C18_AsStated ==
    /\ \A n \in DOMAIN sl.node : MissingLocationData(n) => get_node_line(sl, n) = SENTINEL
    /\ pc # "raised"

-----------------------------------------------------------------------------
(* Targets without a name                                                  *)
(*                                                                         *)
(*   contract Base { function helper() ... }     (inherited, not derived)  *)
(*   contract Caller is Base { function run() ...; function set() ... }    *)
(*                                                                         *)
(* Node 2 of run holds two calls of set and, before, between or after      *)
(* them, one call operation whose target is the object "anon".  anon is    *)
(* an implemented Function of Base or an object without contract, with or  *)
(* without a name attribute; Base may be a library.  Node 2 may also list  *)
(* anon in its node-level summaries.                                       *)

AnonTargets ==
    {Fn(Absent, Absent, TRUE, "Base", 5, <<5>>),
     Fn("helper", "helper()", TRUE, "Base", 5, <<5>>),
     Fn(Absent, Absent, FALSE, NoneF, NoneNode, <<>>),
     Fn("helper", "helper()", FALSE, NoneF, NoneNode, <<>>)}

AnonForms == {"InternalCall", "HighLevelCall", "LibraryCall"}

\* The two calls of set with op at place k among them.
Among(op, k) ==
    CASE k = 1 -> <<op, Op("InternalCall", "set"), Op("InternalCall", "set")>>
      [] k = 2 -> <<Op("InternalCall", "set"), op, Op("InternalCall", "set")>>
      [] k = 3 -> <<Op("InternalCall", "set"), Op("InternalCall", "set"), op>>

AnonProgram(anon, lib, form, k, summ) ==
    [contracts_derived |-> <<"Caller">>,
     contract |-> [c \in {"Caller", "Base"} |->
        [is_library |-> (c = "Base" /\ lib),
         functions |-> IF c = "Caller" THEN <<"run", "set">> ELSE <<"anon">>]],
     func |-> [f \in {"run", "set", "anon"} |->
        CASE f = "run" -> Fn("run", "run()", TRUE, "Caller", 1, <<1, 2>>)
          [] f = "set" -> Fn("set", "set()", TRUE, "Caller", 3, <<3>>)
          [] f = "anon" -> anon],
     node |-> [n \in 1..5 |->
        CASE n = 1 -> EntryNode(AtLine(1), <<2>>)
          [] n = 2 -> Nd(AtLine(2), <<>>, Among(Op(form, "anon"), k),
                         summ.high_level_calls, summ.internal_calls, <<>>)
          [] OTHER -> EntryNode(AtLine(1), <<>>)]]

AnonSummaries ==
    {[high_level_calls |-> h, internal_calls |-> i] :
        h \in {<<>>, <<"anon">>}, i \in {<<>>, <<"anon">>}}

InitAnon ==
    \E anon \in AnonTargets, lib \in BOOLEAN, form \in AnonForms, k \in 1..3,
       summ \in AnonSummaries :
        InitOn(AnonProgram(anon, lib, form, k, summ))

SpecAnon == InitAnon /\ [][Next]_vars

\* The Functions without a name attribute.
Nameless == {f \in DOMAIN sl.func : sl.func[f].name = Absent}

\* A call operation with a target whose resolution has no name.
IsNamelessCall(ir) ==
    IsTargetedCall(ir) /\ find_function_implementation(sl, ir.function) \in Nameless

-----------------------------------------------------------------------------
(* Summary-derived Call Sites                                              *)

\* The kind and the resolved callee a summary entry g of the given list
\* stands for.
SummaryPair(list, g) == <<find_function_implementation(sl, g), SummaryKind(list, g)>>

\* The entries of the node-level summaries of Node n, as (list, entry).
SummaryEntries(n) ==
    {<<"high_level_calls", sl.node[n].high_level_calls[i]>> : i \in DOMAIN sl.node[n].high_level_calls}
    \cup {<<"internal_calls", sl.node[n].internal_calls[i]>> : i \in DOMAIN sl.node[n].internal_calls}

\* C20: a Call Site that comes from a node-level summary never has the
\* callee and the kind of an earlier Call Site of its Function; it is the
\* resolved callee and the kind of a summary entry of its Node; the counter
\* of the Function under traversal equals the number of its records, so an
\* entry that is not recorded takes no number; and once the call graph is
\* built every summary entry is covered by a Call Site of its callee and
\* kind.
C20_SummaryOnce ==
    /\ \A f \in DOMAIN sl.func :
        LET cs == cg.call_sites[f] IN
        /\ \A j \in DOMAIN cs :
              cs[j].ir = 0 =>
                  /\ \A i \in 1..(j - 1) :
                        ~(cs[i].callee_func = cs[j].callee_func /\ cs[i].call_type = cs[j].call_type)
                  /\ \E e \in SummaryEntries(cs[j].node) :
                        e[2] # NoneF /\ SummaryPair(e[1], e[2]) = <<cs[j].callee_func, cs[j].call_type>>
        /\ Orders(cs) \cup Orders(cg.low_level_calls_by_function[f])
              = 1..(Len(cs) + Len(cg.low_level_calls_by_function[f]))
    /\ pc = "ir" =>
          cg.call_order = Len(cg.call_sites[CurCaller])
                          + Len(cg.low_level_calls_by_function[CurCaller])
    /\ CallGraphDone =>
          \A f \in Range(all_functions) : \A n \in Range(sl.func[f].nodes) :
              \A e \in SummaryEntries(n) :
                  e[2] # NoneF =>
                      \E i \in DOMAIN cg.call_sites[f] :
                          SummaryPair(e[1], e[2])
                              = <<cg.call_sites[f][i].callee_func, cg.call_sites[f][i].call_type>>

\* Node 2 of run holds the high-level call of Interface.foo alone and lists
\* Interface.foo and Lib.add in its summaries: the summary of foo is
\* suppressed, the one of add is the second Call Site.
C20_Witness ==
    /\ pc = "done"
    /\ sl.node[2].irs = <<Op("HighLevelCall", "ifoo")>>
    /\ sl.node[2].high_level_calls = <<"ifoo">>
    /\ sl.node[2].internal_calls = <<"add">>
    /\ sl.node[3].irs = <<>>
    /\ Len(cg.call_sites["run"]) = 2
    /\ cg.call_sites["run"][1] =
          [order |-> 1, call_type |-> "high_level", callee_func |-> "foo", node |-> 2, ir |-> 1]
    /\ cg.call_sites["run"][2] =
          [order |-> 2, call_type |-> "library", callee_func |-> "add", node |-> 2, ir |-> 0]

-----------------------------------------------------------------------------
(* Shared Nodes: Functions and Nodes met more than once                    *)
(*                                                                         *)
(* contract A and contract B are both derived; f (entry point Node 1) and  *)
(* g (entry point Node 4) appear in the function lists of A and B in any   *)
(* of the listed ways, so a Function can be met twice; the node lists of f *)
(* and g overlap and can name a Node twice.  Node 2 calls g and its        *)
(* internal_calls summary names g and f; Node 5 calls f and its            *)
(* high_level_calls summary names g twice; Node 3 holds no call.           *)

SharedLists ==
    {<<<<"f">>, <<"g">>>>, <<<<"f", "g">>, <<"f">>>>, <<<<"g", "f">>, <<"g", "f">>>>,
     <<<<"g">>, <<"f", "g">>>>, <<<<"f">>, <<>>>>}

SharedNodesF == {<<1, 2, 3>>, <<1, 3, 2, 5>>, <<1, 2, 3, 2>>, <<1, 5, 4, 2>>}
SharedNodesG == {<<4, 5>>, <<4, 3, 2>>, <<4, 5, 1, 5>>, <<4, 2, 5, 3>>}

SharedProgram(lists, nf, ng) ==
    [contracts_derived |-> <<"A", "B">>,
     contract |-> [c \in {"A", "B"} |->
        [is_library |-> FALSE, functions |-> IF c = "A" THEN lists[1] ELSE lists[2]]],
     func |-> [x \in {"f", "g"} |->
        IF x = "f" THEN Fn("f", "f()", TRUE, "A", 1, nf)
        ELSE Fn("g", "g()", TRUE, "A", 4, ng)],
     node |-> [n \in 1..5 |->
        CASE n = 1 -> EntryNode(AtLine(1), <<2, 3>>)
          [] n = 2 -> Nd(AtLine(2), <<3>>, <<Op("InternalCall", "g")>>,
                         <<>>, <<"g", "f">>, <<>>)
          [] n = 3 -> Plain(AtLine(3), <<2, 5>>)
          [] n = 4 -> EntryNode(AtLine(1), <<3, 5>>)
          [] n = 5 -> Nd(AtLine(3), <<>>, <<Op("InternalCall", "f")>>,
                         <<"g", "g">>, <<>>, <<>>)]]

InitShared ==
    \E lists \in SharedLists, nf \in SharedNodesF, ng \in SharedNodesG :
        InitOn(SharedProgram(lists, nf, ng))

SpecShared == InitShared /\ [][Next]_vars

\* The Node lists of the input Functions, one after the other, as lines 847-848
\* go through them.
RECURSIVE NodesInOrder(_, _)
NodesInOrder(p, fs) ==
    IF fs = <<>> THEN <<>>
    ELSE p.func[Head(fs)].nodes \o NodesInOrder(p, Tail(fs))

Occurrences(s, x) == Cardinality({i \in DOMAIN s : s[i] = x})

\* C21: once the ICFG Nodes are created, every interesting Node has exactly
\* one id, the ids are 0..k-1 without gaps or repeats (k the number of
\* interesting Nodes), and they grow with the place where the Node is first
\* met going through the input Functions and their Node lists, so a Node met
\* again keeps the id it got first.
C21_NodeIds ==
    NodesCreated =>
        LET I == InterestingNodes(sl)
            met == NodesInOrder(sl, all_functions)
        IN  /\ \A n \in I : Occurrences(icfg.node_to_id, n) = 1
            /\ Range(icfg.node_to_id) = I
            /\ {NodeId(icfg, n) : n \in I} = 0..(Cardinality(I) - 1)
            /\ icfg.node_id = Cardinality(I)
            /\ Len(icfg.icfg_nodes) = Cardinality(I)
            /\ \A i \in DOMAIN icfg.icfg_nodes : icfg.icfg_nodes[i].id = i - 1
            /\ \A a, b \in I :
                  IndexOf(met, a) < IndexOf(met, b) => NodeId(icfg, a) < NodeId(icfg, b)

\* A run where an interesting Node is met a second time after another
\* interesting Node was first met in between.
C21_Witness ==
    /\ NodesCreated
    /\ LET met == NodesInOrder(sl, all_functions)
       IN  \E i, j, k \in DOMAIN met :
              /\ i < j /\ j < k /\ met[i] = met[k] /\ met[j] # met[i]
              /\ IndexOf(met, met[j]) = j
              /\ {met[i], met[j]} \subseteq InterestingNodes(sl)
              /\ NodeId(icfg, met[i]) < NodeId(icfg, met[j])

-----------------------------------------------------------------------------
(* Termination of the intra-procedural search                              *)

\* Every successor graph of GraphProgram, with no call, one call Node or two.
LoopCalls == {{}, {3}, {2, 4}}

InitLoops ==
    \E E \in SubsetsUpTo((1..GraphNodes) \X (2..GraphNodes), MaxEdges),
       calls \in LoopCalls :
        InitOn(GraphProgram(E, calls))

\* The runs where a step that can be taken is eventually taken: the
\* interpreter does not stop in the middle of main.
FairLoops == InitLoops /\ [][Next]_vars /\ WF_vars(Next)

\* The Node at the head of the queue (line 883).
Current == Head(queue)[1]

\* C22: the search from a source Node ends on every successor graph, those
\* with loops, back-edges and self-loops included, and expands a Node at most
\* once per source: an iteration either takes a Node that is not yet visited,
\* marks it and enqueues successors that are not visited, or drops a visited
\* Node from the queue and does nothing else; the visited set belongs to one
\* source Node, which is the first Node expanded.
C22_Termination ==
    /\ [][pc = "bfs" =>
            IF Current \in visited
            THEN /\ visited' = visited
                 /\ queue' = Tail(queue)
                 /\ icfg' = icfg
            ELSE /\ visited' = visited \cup {Current}
                 /\ Len(queue') >= Len(queue) - 1
                 /\ \A i \in DOMAIN queue' :
                       i >= Len(queue) =>
                           /\ queue'[i][1] \in Sons(Current) \ visited'
                           /\ queue'[i][2] = SrcNode]_vars
    /\ [][pc = "intra" => visited' = {} /\ queue' = << <<SrcNode, SrcNode>> >>]_vars
    /\ (pc = "bfs" ~> pc # "bfs")

\* The search is on a cycle of the successor graph: the Node at the head of
\* the queue was visited before, and it is reachable from itself.
C22_Witness ==
    /\ pc = "bfs"
    /\ queue # <<>>
    /\ Current \in visited
    /\ Current \in FullReach(Current)
    /\ Current # SrcNode

-----------------------------------------------------------------------------
(* Duplicate edges                                                         *)

\* The number of edges of a type from Node s to Node d in the edge list.
EdgeCount(type, s, d) ==
    Cardinality({i \in DOMAIN icfg.icfg_edges :
        /\ icfg.icfg_edges[i].type = type
        /\ icfg.icfg_edges[i].src = NodeId(icfg, s)
        /\ icfg.icfg_edges[i].dst = NodeId(icfg, d)})

\* The number of inter-procedural edges s -> d that operations are the origin
\* of: one per operation of s resolving to the entry point d, each time the
\* loops of lines 909-910 come to s.
EdgesFromIR(s, d) ==
    Occurrences(NodesInOrder(sl, all_functions), s)
    * Cardinality({i \in DOMAIN sl.node[s].irs :
                      CalleeEntry(icfg, sl, InterCallee(sl.node[s].irs[i])) = d})

\* C23: the edge list never holds two intra-procedural edges with the same
\* source and destination, and the node-level call summaries never add an
\* inter-procedural edge to a pair that has one: a pair has no more
\* inter-procedural edges than its operations give it, or one at most when no
\* operation gives it any.
C23_NoDuplicates ==
    \A s, d \in Range(icfg.node_to_id) :
        /\ EdgeCount("intra_procedural", s, d) <= 1
        /\ EdgeCount("inter_procedural", s, d) <=
              IF EdgesFromIR(s, d) > 0 THEN EdgesFromIR(s, d) ELSE 1

\* A Function was collected twice, so the search ran twice from a source
\* Node with an intra-procedural edge; a summary named twice a callee that no
\* operation of the Node calls and the pair has one edge; a summary named a
\* callee that an operation of the Node calls.
C23_Witness ==
    /\ pc = "done"
    /\ Occurrences(all_functions, "f") = 2
    /\ \E d \in Range(icfg.node_to_id) : EdgeCount("intra_procedural", 1, d) = 1
    /\ HasNodeId(icfg, 5) /\ HasNodeId(icfg, 4)
    /\ EdgesFromIR(5, 4) = 0
    /\ Occurrences(sl.node[5].high_level_calls, "g") = 2
    /\ EdgeCount("inter_procedural", 5, 4) = 1
    /\ HasNodeId(icfg, 2)
    /\ "g" \in Range(sl.node[2].internal_calls)
    /\ EdgesFromIR(2, 4) > 0
    /\ EdgeCount("inter_procedural", 2, 4) = EdgesFromIR(2, 4)

-----------------------------------------------------------------------------
(* References outside the tracked sets                                     *)

NodeIds == {icfg.icfg_nodes[i].id : i \in DOMAIN icfg.icfg_nodes}
FunctionIds == {out.function_nodes[i].id : i \in DOMAIN out.function_nodes}

\* The Nodes the inter-procedural edges from Node n end at.
InterDestinations(n) ==
    {icfg.node_to_id[icfg.icfg_edges[i].dst + 1] : i \in InterEdgesFrom(n)}

\* The targets of the call operations of Node n that are input Functions
\* with an entry point.
InputTargets(n) ==
    {sl.node[n].irs[i].function : i \in {j \in DOMAIN sl.node[n].irs :
        /\ sl.node[n].irs[j].form \in {"InternalCall", "HighLevelCall", "LibraryCall"}
        /\ sl.node[n].irs[j].function \in Range(all_functions)
        /\ sl.func[sl.node[n].irs[j].function].entry_point # NoneNode}}

\* C24: a call whose callee has no entry point among the ICFG Nodes gives no
\* inter-procedural edge and the run goes on to its end without raising: every
\* ICFG edge joins ids of ICFG Nodes, an inter-procedural edge ends at an
\* entry-point Node, every exported call-graph edge joins ids of exported
\* call-graph nodes, and the other edges are there: the calls of a Node to
\* input Functions have their inter-procedural edges and every Call Site has
\* its exported edge.
C24_Skipped ==
    /\ [](/\ pc # "raised"
          /\ \A i \in DOMAIN icfg.icfg_edges :
                /\ icfg.icfg_edges[i].src \in NodeIds
                /\ icfg.icfg_edges[i].dst \in NodeIds
                /\ icfg.icfg_edges[i].type = "inter_procedural" =>
                      icfg.icfg_nodes[icfg.icfg_edges[i].dst + 1].is_entry_point
          /\ \A i \in DOMAIN out.function_edges :
                out.function_edges[i].src \in FunctionIds
                /\ out.function_edges[i].dst \in FunctionIds
          /\ pc = "done" =>
                /\ \A n \in Range(icfg.node_to_id) :
                      InterDestinations(n)
                          = {sl.func[t].entry_point : t \in InputTargets(n)}
                /\ \A f \in Range(all_functions) : \A k \in DOMAIN cg.call_sites[f] :
                      \E i \in DOMAIN out.function_edges :
                          /\ out.function_nodes[out.function_edges[i].src + 1].func = f
                          /\ out.function_nodes[out.function_edges[i].dst + 1].func
                                = cg.call_sites[f][k].callee_func
                          /\ out.function_edges[i].order = cg.call_sites[f][k].order
                          /\ out.function_edges[i].call_type = cg.call_sites[f][k].call_type)
    /\ (pc = "collect" ~> pc = "done")

\* run calls set, an input Function, and foo, an implemented Function of a
\* contract that is not derived: the edge to the entry point of set is there,
\* the entry point of foo is not an ICFG Node, and the call graph has foo.
C24_Witness ==
    /\ pc = "done"
    /\ all_functions = <<"run", "set">>
    /\ sl.node[2].irs = <<Op("InternalCall", "set"), Op("HighLevelCall", "foo")>>
    /\ sl.func["foo"].is_implemented
    /\ ~HasNodeId(icfg, sl.func["foo"].entry_point)
    /\ InterDestinations(2) = {3}
    /\ \E i \in DOMAIN out.function_edges :
          out.function_nodes[out.function_edges[i].dst + 1].func = "foo"

-----------------------------------------------------------------------------
(* Tracking: callees registered while the call graph is built              *)
(*                                                                         *)
(*   contract Caller { function run() ...; function aux() ... }            *)
(*   contract Ext { function x() {...}; function y(); function z() {...} } *)
(*                                                                         *)
(* Only Caller is derived.  Node 2 of run holds any sequence of at most    *)
(* MaxCalls calls out of x(), y(), z() and aux(); Node 4 of aux holds one  *)
(* of three sequences of calls.                                            *)

MaxCalls == 3

TrackOps ==
    {Op("HighLevelCall", "x"), Op("HighLevelCall", "y"), Op("HighLevelCall", "z"),
     Op("InternalCall", "aux")}

TrackAuxOps ==
    {<<>>, <<Op("HighLevelCall", "y"), Op("HighLevelCall", "x")>>,
     <<Op("InternalCall", "run"), Op("HighLevelCall", "z")>>}

TrackProgram(ops, auxOps) ==
    [contracts_derived |-> <<"Caller">>,
     contract |-> [c \in {"Caller", "Ext"} |->
        [is_library |-> FALSE,
         functions |-> IF c = "Caller" THEN <<"run", "aux">> ELSE <<"x", "y", "z">>]],
     func |-> [f \in {"run", "aux", "x", "y", "z"} |->
        CASE f = "run" -> Fn("run", "run()", TRUE, "Caller", 1, <<1, 2>>)
          [] f = "aux" -> Fn("aux", "aux()", TRUE, "Caller", 3, <<3, 4>>)
          [] f = "x" -> Fn("x", "x()", TRUE, "Ext", 5, <<5>>)
          [] f = "y" -> Declared("y", "y()", "Ext")
          [] f = "z" -> Fn("z", "z()", TRUE, "Ext", 6, <<6>>)],
     node |-> [n \in 1..6 |->
        CASE n = 1 -> EntryNode(AtLine(1), <<2>>)
          [] n = 2 -> Nd(AtLine(2), <<>>, ops, <<>>, <<>>, <<>>)
          [] n = 3 -> EntryNode(AtLine(1), <<4>>)
          [] n = 4 -> Nd(AtLine(2), <<>>, auxOps, <<>>, <<>>, <<>>)
          [] OTHER -> EntryNode(AtLine(1), <<>>)]]

InitTrack ==
    \E ops \in SeqsUpTo(TrackOps, MaxCalls), auxOps \in TrackAuxOps :
        InitOn(TrackProgram(ops, auxOps))

SpecTrack == InitTrack /\ [][Next]_vars

\* The callees of the Call Sites recorded so far, in the order the Call
\* Sites were recorded: caller by caller, each caller's list in its order.
RECURSIVE Observed(_)
Observed(fs) ==
    IF fs = <<>> THEN <<>>
    ELSE [i \in DOMAIN cg.call_sites[Head(fs)] |-> cg.call_sites[Head(fs)][i].callee_func]
         \o Observed(Tail(fs))

NoRepeats(s) == \A i, j \in DOMAIN s : s[i] = s[j] => i = j

\* C25: for an input Function list without repeats, once the input Functions
\* are registered every tracked Function has exactly one id, the ids are
\* 0..m-1, the input Functions come first in their order and the callees
\* after them in the order they were first observed; registering a tracked
\* Function gives its id and leaves the table as it is; a step of the run
\* never changes or removes a record, it only adds records at the end.
C25_Tracking ==
    /\ [](NoRepeats(all_functions) /\ pc \notin {"collect", "register"} =>
            /\ NoRepeats(cg.func_to_id)
            /\ cg.func_id = Len(cg.func_to_id)
            /\ {FuncId(cg, f) : f \in Tracked(cg)} = 0..(cg.func_id - 1)
            /\ cg.func_to_id = FirstSeen(all_functions \o Observed(all_functions))
            /\ \A f \in Tracked(cg) :
                  /\ add_function_to_tracking(cg, f) = cg
                  /\ cg.func_to_id[FuncId(add_function_to_tracking(cg, f), f) + 1] = f)
    /\ [][/\ Len(cg'.func_to_id) >= Len(cg.func_to_id)
          /\ \A i \in DOMAIN cg.func_to_id : cg'.func_to_id[i] = cg.func_to_id[i]]_vars

\* Two callees outside the input are registered in the order of their first
\* calls, one of them called again later, and an input Function is called.
C25_Witness ==
    /\ pc = "done"
    /\ cg.func_to_id = <<"run", "aux", "z", "y", "x">>
    /\ Observed(<<"run">>) = <<"z", "aux", "z">>
    /\ Observed(<<"aux">>) = <<"y", "x">>

-----------------------------------------------------------------------------
(* The resolver as a function                                              *)

\* C26: resolving is idempotent and keeps the name: for every Function f of
\* the Program Model, resolving the result of resolving f gives that result
\* again, the result is f itself or an implemented Function with the simple
\* name of f, and resolving None gives None.
C26_Resolution ==
    /\ find_function_implementation(sl, NoneF) = NoneF
    /\ \A f \in DOMAIN sl.func :
          LET r == find_function_implementation(sl, f) IN
          /\ r # NoneF
          /\ find_function_implementation(sl, r) = r
          /\ r = f \/ (sl.func[r].is_implemented /\ sl.func[r].name = sl.func[f].name)

\* The run resolved the declaration Interface.foo to an implementation, which
\* the Call Site of run names; a declaration of contract A has no
\* implementation and resolves to itself, although an implemented Function
\* of another name or signature exists.
C26_Witness ==
    /\ pc = "done"
    /\ sl.node[2].irs[1].function = "ifoo"
    /\ Len(cg.call_sites["run"]) = 1
    /\ cg.call_sites["run"][1].callee_func = "b1"
    /\ ~sl.func["a1"].is_implemented
    /\ find_function_implementation(sl, "a1") = "a1"
    /\ sl.func["a2"].is_implemented

-----------------------------------------------------------------------------
(* Call Sites of operations are never suppressed                           *)

\* A call operation of the internal, library or high-level form whose
\* resolved target has a name.
IsNamedCall(ir) ==
    IsTargetedCall(ir) /\ find_function_implementation(sl, ir.function) \notin Nameless

\* The Call Sites of f that come from the operation at position x[2] of
\* Node x[1].
SitesFrom(f, x) ==
    {i \in DOMAIN cg.call_sites[f] :
        cg.call_sites[f][i].node = x[1] /\ cg.call_sites[f][i].ir = x[2]}

\* C27: once the call graph is built, every operation of the internal,
\* library or high-level form whose resolved target has a name has exactly
\* one Call Site, also when the Function has another Call Site with the same
\* callee and kind; a Function has at least as many Call Sites as it has
\* such operations.
C27_NeverSuppressed ==
    CallGraphDone =>
        \A f \in Range(all_functions) :
            /\ \A x \in OpsOf(f, IsNamedCall) :
                  /\ Cardinality(SitesFrom(f, x)) = 1
                  /\ \A i \in SitesFrom(f, x) :
                        cg.call_sites[f][i].callee_func
                            = find_function_implementation(sl, sl.node[x[1]].irs[x[2]].function)
            /\ Len(cg.call_sites[f]) >= Cardinality(OpsOf(f, IsNamedCall))

\* run calls set twice by the same form of operation, and both calls are
\* Call Sites with the same callee and kind; a third operation has a named
\* target and its Call Site too.
C27_Witness ==
    /\ pc = "done"
    /\ Cardinality(OpsOf("run", IsNamedCall)) = 3
    /\ \E i, j \in DOMAIN cg.call_sites["run"] :
          /\ i # j
          /\ cg.call_sites["run"][i].callee_func = "set"
          /\ cg.call_sites["run"][j].callee_func = "set"
          /\ cg.call_sites["run"][i].call_type = cg.call_sites["run"][j].call_type
          /\ cg.call_sites["run"][i].ir > 0 /\ cg.call_sites["run"][j].ir > 0

-----------------------------------------------------------------------------
(* The coarse edge set and the Call Site lists                             *)

\* The Call Sites of all Functions, as (caller, position in its list) pairs.
AllCallSites ==
    UNION {{<<f, k>> : k \in DOMAIN cg.call_sites[f]} : f \in DOMAIN sl.func}

\* The exported call-graph edges that stand for the Call Site x.
ExportedFor(x) ==
    LET site == cg.call_sites[x[1]][x[2]] IN
    {i \in DOMAIN out.function_edges :
        /\ out.function_nodes[out.function_edges[i].src + 1].func = x[1]
        /\ out.function_nodes[out.function_edges[i].dst + 1].func = site.callee_func
        /\ out.function_edges[i].order = site.order
        /\ out.function_edges[i].call_type = site.call_type}

\* The Call Sites of the caller of x with the callee, order and kind of x
\* (x alone, unless the caller was collected twice).
SitesLike(x) ==
    {k \in DOMAIN cg.call_sites[x[1]] :
        /\ cg.call_sites[x[1]][k].callee_func = cg.call_sites[x[1]][x[2]].callee_func
        /\ cg.call_sites[x[1]][k].order = cg.call_sites[x[1]][x[2]].order
        /\ cg.call_sites[x[1]][k].call_type = cg.call_sites[x[1]][x[2]].call_type}

\* C28: at every point of the run the coarse edge set holds kind k for the
\* pair (f, g) exactly when f has a Call Site with callee g and kind k, and
\* the callee of every Call Site is a registered Function; the exported
\* document has exactly one call-graph edge for every Call Site and no other.
C28_Agreement ==
    /\ cg.call_graph =
          {<<x[1], cg.call_sites[x[1]][x[2]].callee_func, cg.call_sites[x[1]][x[2]].call_type>> :
              x \in AllCallSites}
    /\ \A x \in AllCallSites :
          /\ x[1] \in Tracked(cg)
          /\ cg.call_sites[x[1]][x[2]].callee_func \in Tracked(cg)
    /\ pc = "done" =>
          /\ Len(out.function_edges) = Cardinality(AllCallSites)
          /\ \A x \in AllCallSites :
                Cardinality(ExportedFor(x)) = Cardinality(SitesLike(x))

\* run has two Call Sites with the same callee and different kinds, one of
\* them from a node-level summary, and a third Call Site; the edge of the
\* pair holds both kinds and three edges are exported.
C28_Witness ==
    /\ pc = "done"
    /\ Len(cg.call_sites["run"]) = 3
    /\ Len(out.function_edges) = 3
    /\ \A k \in 1..3 : Cardinality(ExportedFor(<<"run", k>>)) = 1
    /\ \E g \in DOMAIN sl.func : \E k1, k2 \in {"internal", "library", "high_level"} :
          /\ k1 # k2
          /\ {<<"run", g, k1>>, <<"run", g, k2>>} \subseteq cg.call_graph
    /\ \E i \in DOMAIN cg.call_sites["run"] : cg.call_sites["run"][i].ir = 0

-----------------------------------------------------------------------------
(* The call graph and the ICFG together                                    *)

\* The input Functions that own Node n.
OwnersOf(n) == {f \in Range(all_functions) : n \in Range(sl.func[f].nodes)}

====
